---- MODULE Spec2Model ----
(***************************************************************************)
(* Process Copilot Mini: the text chunker (src/src/utils.py), the          *)
(* retrieval confidence gate and the ask pipeline (src/src/rag.py), the    *)
(* citation formatter (src/src/utils.py) and the vector index              *)
(* (src/src/index.py), the alarm analyzer (src/src/alarms.py) and the      *)
(* document ingester (src/src/ingest.py).                                  *)
(*                                                                         *)
(* Conventions.  Strings of the program are sequences of one-character     *)
(* strings; positions are 0-based as in the Python source, so text[a:b]    *)
(* is Slice(text, a, b).  Scores and distances are fixed-point numbers in  *)
(* units of 1/ScoreScale; comparisons of quotients are done exactly by     *)
(* cross-multiplication.  Citation scores, which the program rounds to     *)
(* three decimals, are in units of 1/CitationScale.                        *)
(***************************************************************************)
EXTENDS Integers, Sequences, FiniteSets, TLC

VARIABLES
    \* chunk_text (utils.py): its arguments and locals
    text, chunk_size, overlap, start, chunks, chunk_count, windows, truncated, cpc,
    \* gate / ask / format_citations applied to given result lists (rag.py, utils.py)
    g_results, g_query, g_threshold, g_op, g_confident, g_response, g_citations,
    \* VectorIndex (index.py): self.model, self.index, self.chunks, the two files
    model_loaded, index, ichunks, index_file, chunks_file,
    \* the last call on the index, its arguments and what it returned
    i_op, i_ret, i_query, i_k, i_results, i_response,
    \* whether the last call raised to its caller, whether its retrieval failed
    i_raised, i_retrieval_failed,
    \* the chunks the last build_index was given and the step of it that raised
    b_supplied, b_fail,
    \* compute_summary_stats / _find_alarm_transitions applied to a given frame
    s_df, s_op, s_stats, s_transitions,
    \* the alarm data file and the last call of explain_alarm: its arguments,
    \* its result, whether it raised, whether and with what query it called ask
    alarm_file, a_op, a_tag, a_start, a_end, a_result, a_raised, a_asked, a_query,
    \* ingest_pdfs (ingest.py): the PDF files found, how many are processed,
    \* all_chunks, the chunk file it writes, its control position
    pdf_files, n_done, all_chunks, processed_file, ipc,
    \* _generate_answer (rag.py) applied to a given query and context
    ga_query, ga_context, ga_answer, ga_op,
    \* concurrent callers of VectorIndex.search: each one's position, arguments, hits of the index search still to format, results
    t_pc, t_q, t_k, t_hits, t_res

chunkVars == <<text, chunk_size, overlap, start, chunks, chunk_count, windows, truncated, cpc>>
gateVars == <<g_results, g_query, g_threshold, g_op, g_confident, g_response, g_citations>>
indexVars == <<model_loaded, index, ichunks, index_file, chunks_file,
               i_op, i_ret, i_query, i_k, i_results, i_response,
               i_raised, i_retrieval_failed, b_supplied, b_fail>>
statVars == <<s_df, s_op, s_stats, s_transitions>>
alarmVars == <<alarm_file, a_op, a_tag, a_start, a_end, a_result, a_raised, a_asked,
               a_query>>
ingestVars == <<pdf_files, n_done, all_chunks, processed_file, ipc>>
answerVars == <<ga_query, ga_context, ga_answer, ga_op>>
concVars == <<t_pc, t_q, t_k, t_hits, t_res>>
vars == <<chunkVars, gateVars, indexVars, statVars, alarmVars, ingestVars, answerVars, concVars>>

Min(a, b) == IF a <= b THEN a ELSE b
Max(a, b) == IF a >= b THEN a ELSE b
Abs(x) == IF x < 0 THEN -x ELSE x

(***************************************************************************)
(* Bounds of the model.                                                    *)
(***************************************************************************)
MaxLen == 7
MaxChunkSizeArg == 6
MaxOverlapArg == 2
LongLen == 1002
MaxResults == 2
MaxK == 3
MaxRows == 3
MaxDocs == 2
MaxLines == 2

(***************************************************************************)
(* Program constants.                                                      *)
(***************************************************************************)
CHUNK_SIZE == 600
CHUNK_OVERLAP == 100
max_chunks == 1000
SentenceLookback == 50
ScoreScale == 10000
CitationScale == 1000
RETRIEVAL_K == 5
DefaultScoreThreshold == -20000
BaseThreshold == 5000
OffDomainThreshold == 8000

(***************************************************************************)
(* Strings.                                                                *)
(***************************************************************************)
Chars == {"a", " ", "."}
IsSpace(c) == c = " "
IsPunct(c) == c = "."

\* Python s[a:b] for 0 <= a
Slice(s, a, b) ==
    LET hi == Min(b, Len(s))
    IN  IF a >= hi THEN <<>> ELSE SubSeq(s, a + 1, hi)

StripNothing(s) == s

\* Python s.strip()
Strip(s) ==
    IF \A i \in 1..Len(s) : IsSpace(s[i]) THEN <<>>
    ELSE LET lo == CHOOSE i \in 1..Len(s) :
                       ~IsSpace(s[i]) /\ \A j \in 1..(i - 1) : IsSpace(s[j])
             hi == CHOOSE i \in 1..Len(s) :
                       ~IsSpace(s[i]) /\ \A j \in (i + 1)..Len(s) : IsSpace(s[j])
         IN  SubSeq(s, lo, hi)

\* all sequences over S of length at most n
SeqsUpTo(S, n) == UNION {[1..m -> S] : m \in 0..n}

\* s is an element of the list l (Python: s in l)
InList(s, l) == \E i \in 1..Len(l) : l[i] = s

(***************************************************************************)
(* chunk_text                                                              *)
(***************************************************************************)

\* start positions (0-based, relative to the whole text) of the matches of
\* [.!?]\s+ that lie inside text[search_start:end]
BoundaryStarts(t, search_start, end) ==
    {i \in search_start..(end - 2) : IsPunct(t[i + 1]) /\ IsSpace(t[i + 2])}

\* end position of the (greedy) match that starts at i, inside text[..:end]
MatchEnd(t, i, end) ==
    CHOOSE j \in (i + 2)..end :
        /\ \A m \in (i + 1)..(j - 1) : IsSpace(t[m + 1])
        /\ (j = end \/ ~IsSpace(t[j + 1]))

WindowEndOfText(t, s, cs) == Len(t)

\* lines 52-67: the end of the window that starts at s
WindowEnd(t, s, cs) ==
    LET end0 == Min(s + cs, Len(t))
    IN  IF end0 < Len(t)
        THEN LET search_start == Max(s, end0 - SentenceLookback)
                 ms == BoundaryStarts(t, search_start, end0)
             IN  IF ms # {}
                 THEN MatchEnd(t, CHOOSE i \in ms : \A j \in ms : j <= i, end0)
                 ELSE end0
        ELSE end0

NextStartHalfOnly(s, end, ov, cs) ==
    IF end - ov <= s THEN s + (cs \div 2) ELSE end - ov

\* lines 76-82: the next window start
NextStart(s, end, ov, cs) ==
    IF end - ov <= s THEN s + Max(1, cs \div 2) ELSE end - ov

ChunkInputs ==
    SeqsUpTo(Chars, MaxLen) \cup {[i \in 1..LongLen |-> "a"]}

InitChunk ==
    /\ text \in ChunkInputs
    /\ chunk_size \in 0..MaxChunkSizeArg
    /\ overlap \in 0..MaxOverlapArg
    /\ start = 0
    /\ chunks = <<>>
    /\ chunk_count = 0
    /\ windows = {}
    /\ truncated = FALSE
    /\ cpc = "call"

\* lines 33-48: defaults, the empty and the single-chunk short-circuits
ChunkEnter ==
    /\ cpc = "call"
    /\ LET cs == IF chunk_size = 0 THEN CHUNK_SIZE ELSE chunk_size
           ov == IF overlap = 0 THEN CHUNK_OVERLAP ELSE overlap
           t  == Strip(text)
       IN  /\ chunk_size' = cs
           /\ overlap' = ov
           /\ IF t = <<>>
              THEN /\ cpc' = "done"
                   /\ UNCHANGED <<text, chunks, windows>>
              ELSE /\ text' = t
                   /\ IF Len(t) <= cs
                      THEN /\ chunks' = <<t>>
                           /\ windows' = {<<0, Len(t)>>}
                           /\ cpc' = "done"
                      ELSE /\ cpc' = "loop"
                           /\ UNCHANGED <<chunks, windows>>
    /\ UNCHANGED <<start, chunk_count, truncated>>

\* lines 50-90: one iteration of the window loop
ChunkIter ==
    /\ cpc = "loop"
    /\ start < Len(text) /\ chunk_count < max_chunks
    /\ LET end       == WindowEnd(text, start, chunk_size)
           chunk     == Strip(Slice(text, start, end))
           chunks1   == IF chunk # <<>> THEN Append(chunks, chunk) ELSE chunks
           windows1  == IF chunk # <<>> THEN windows \cup {<<start, end>>} ELSE windows
           new_start == NextStart(start, end, overlap, chunk_size)
           remaining == Strip(Slice(text, new_start, Len(text)))
       IN  /\ start' = new_start
           /\ chunk_count' = chunk_count + 1
           /\ IF Len(text) - new_start < chunk_size \div 2
              THEN /\ IF remaining # <<>> /\ ~InList(remaining, chunks1)
                      THEN /\ chunks' = Append(chunks1, remaining)
                           /\ windows' = windows1 \cup {<<new_start, Len(text)>>}
                      ELSE /\ chunks' = chunks1
                           /\ windows' = windows1
                   /\ cpc' = "done"
                   /\ truncated' = (chunk_count + 1 >= max_chunks)
              ELSE /\ chunks' = chunks1
                   /\ windows' = windows1
                   /\ cpc' = "loop"
                   /\ UNCHANGED truncated
    /\ UNCHANGED <<text, chunk_size, overlap>>

\* lines 50, 92-98: the loop condition fails
ChunkExit ==
    /\ cpc = "loop"
    /\ ~(start < Len(text) /\ chunk_count < max_chunks)
    /\ cpc' = "done"
    /\ truncated' = (chunk_count >= max_chunks)
    /\ UNCHANGED <<text, chunk_size, overlap, start, chunks, chunk_count, windows>>

NextChunk ==
    \/ ChunkEnter /\ UNCHANGED <<gateVars, indexVars, statVars, alarmVars, ingestVars, answerVars, concVars>>
    \/ ChunkIter /\ UNCHANGED <<gateVars, indexVars, statVars, alarmVars, ingestVars, answerVars, concVars>>
    \/ ChunkExit /\ UNCHANGED <<gateVars, indexVars, statVars, alarmVars, ingestVars, answerVars, concVars>>

(***************************************************************************)
(* Search results, queries                                                 *)
(*                                                                         *)
(* A search result is a Python value: a dict with some of the keys         *)
(* score/title/page, or something that is not a dict.  keys = {} is the    *)
(* empty dict.  PageNA stands for the string 'N/A'.                        *)
(***************************************************************************)
PageNA == 0
ResultKeys == {"score", "title", "page"}

MkResult(s, t, p) ==
    [isdict |-> TRUE, keys |-> ResultKeys, score |-> s, title |-> t, page |-> p]
NoScoreResult ==
    [isdict |-> TRUE, keys |-> {"title", "page"}, score |-> 0, title |-> "Manual", page |-> 5]
EmptyDict ==
    [isdict |-> TRUE, keys |-> {}, score |-> 0, title |-> "", page |-> 0]
NotADict ==
    [isdict |-> FALSE, keys |-> {}, score |-> 0, title |-> "", page |-> 0]

\* dict.get(key, default)
GetScore(r, default) == IF "score" \in r.keys THEN r.score ELSE default
GetTitle(r, default) == IF "title" \in r.keys THEN r.title ELSE default
GetPage(r, default)  == IF "page" \in r.keys THEN r.page ELSE default

\* a query is the list of its whitespace-separated tokens (query.split())
Lower(tok) ==
    CASE tok = "Tell" -> "tell"
      [] tok = "What" -> "what"
      [] tok = "Temperature" -> "temperature"
      [] tok = "Check" -> "check"
      [] tok = "Pump" -> "pump"
      [] tok = "Feed" -> "feed"
      [] tok = "Normal Operating Range:" -> "normal operating range:"
      [] tok = "High Alarm Setpoint:" -> "high alarm setpoint:"
      [] tok = "Calibration Procedure:" -> "calibration procedure:"
      [] tok = "Preventive Maintenance:" -> "preventive maintenance:"
      [] OTHER -> tok

industrial_keywords ==
    {"temperature", "pressure", "alarm", "control", "valve", "sensor",
     "calibration", "maintenance", "safety", "procedure", "process",
     "emergency", "shutdown", "troubleshooting", "psi", "celsius", "degrees",
     "flow", "pump", "system", "operating", "calibrate", "high", "low",
     "normal", "range", "setpoint", "instrumentation"}

HasIndustrialContextFirstWord(query) ==
    query # <<>> /\ Lower(query[1]) \in industrial_keywords

\* rag.py lines 92-102
HasIndustrialContext(query) ==
    {Lower(query[i]) : i \in 1..Len(query)} \cap industrial_keywords # {}

(***************************************************************************)
(* _check_retrieval_confidence                                             *)
(***************************************************************************)
ConfidenceThresholdConfigured(top_score, has_context, configured) ==
    IF ~has_context THEN OffDomainThreshold ELSE configured

ConfidenceThresholdNoOverride(top_score, has_context, configured) ==
    IF top_score < 0 THEN BaseThreshold ELSE configured

\* rag.py lines 82-106: the threshold the similarity is compared with
ConfidenceThreshold(top_score, has_context, configured) ==
    IF ~has_context THEN OffDomainThreshold
    ELSE IF top_score < 0 THEN BaseThreshold ELSE configured

\* rag.py lines 82-88: the similarity as the fraction num/den
SimilarityNum(s) == IF s < 0 THEN ScoreScale ELSE s
SimilarityDen(s) == IF s < 0 THEN ScoreScale + Abs(s) ELSE ScoreScale

\* rag.py lines 65-112; configured is Config.SCORE_THRESHOLD
CheckRetrievalConfidence(results, query, configured) ==
    IF results = <<>> THEN FALSE
    ELSE IF ~results[1].isdict THEN FALSE
    ELSE LET top_score == GetScore(results[1], 0)
             threshold == ConfidenceThreshold(top_score, HasIndustrialContext(query),
                                              configured)
         IN  SimilarityNum(top_score) * ScoreScale >= threshold * SimilarityDen(top_score)

(***************************************************************************)
(* format_citations                                                        *)
(***************************************************************************)
\* round(n/d) to the nearest integer, ties to even (Python round)
RoundDiv(n, d) ==
    LET q == n \div d
        r == n % d
    IN  IF 2 * r > d THEN q + 1
        ELSE IF 2 * r < d THEN q
        ELSE IF q % 2 = 0 THEN q ELSE q + 1

CitationScoreTruncated(raw_score) ==
    IF raw_score < 0
    THEN (CitationScale * ScoreScale) \div (ScoreScale + Abs(raw_score))
    ELSE (raw_score * CitationScale) \div ScoreScale

\* utils.py lines 162-176: the citation score round(similarity_score, 3), in
\* units of 1/CitationScale, of a raw score in units of 1/ScoreScale
CitationScore(raw_score) ==
    IF raw_score < 0
    THEN RoundDiv(CitationScale * ScoreScale, ScoreScale + Abs(raw_score))
    ELSE RoundDiv(raw_score * CitationScale, ScoreScale)

RECURSIVE FormatCitations(_)
\* utils.py lines 155-180
FormatCitations(results) ==
    IF results = <<>> THEN <<>>
    ELSE LET r == Head(results)
             rest == FormatCitations(Tail(results))
         IN  IF r.keys = {} \/ ~r.isdict
             THEN rest
             ELSE <<[title |-> GetTitle(r, "Unknown"),
                     page  |-> GetPage(r, PageNA),
                     score |-> CitationScore(GetScore(r, 0))]>> \o rest

(***************************************************************************)
(* ask                                                                     *)
(***************************************************************************)
IDontKnow == "I don't know"
Generated == "generated answer"
IsDict(r) == r.isdict

AskOnUngated(results, query, configured) ==
    [answer |-> Generated, citations |-> FormatCitations(SelectSeq(results, IsDict))]

\* rag.py lines 254-274: ask, given what retrieve returned
AskOn(results, query, configured) ==
    IF ~CheckRetrievalConfidence(results, query, configured)
    THEN [answer |-> IDontKnow, citations |-> <<>>]
    ELSE [answer |-> Generated,
          citations |-> FormatCitations(SelectSeq(results, IsDict))]

(***************************************************************************)
(* The gate, ask and format_citations applied to given result lists (as    *)
(* the unit tests do, with VectorIndex.search mocked)                      *)
(***************************************************************************)
GateScores == {-20000, -10000, -5000, -2500, -1000, 0, 1000, 1234, 5000, 8000, 8766, 15000}
GateResults ==
    {MkResult(s, "Manual", 5) : s \in GateScores} \cup {NoScoreResult, EmptyDict, NotADict}
GateQueries ==
    {<<"Tell", "me", "about", "unicorns">>,
     <<"unicorns">>,
     <<"temperature", "range">>,
     <<"What", "is", "the", "temperature", "range?">>,
     <<"Temperature">>,
     <<>>}
GateThresholds == {DefaultScoreThreshold, 3500, 9000}

NoResponse == [answer |-> "", citations |-> <<>>]

\* rag.py lines 276-281: the response of the except clause of ask
AskError == [answer |-> "I encountered an error", citations |-> <<>>]

TryNothing(outcome, fallback) == outcome

\* try: ... except Exception: return fallback.  An outcome is what a block
\* of code does: it raises, or it completes with a value.
TryExcept(outcome, fallback) ==
    IF outcome.raised THEN [raised |-> FALSE, value |-> fallback] ELSE outcome

\* rag.py lines 246-274: the try block of ask, given what retrieve returned;
\* fail = "generate" is an exception in steps 3 and 4 (_format_context,
\* _generate_answer, format_citations)
AskBody(results, query, configured, fail) ==
    IF CheckRetrievalConfidence(results, query, configured) /\ fail = "generate"
    THEN [raised |-> TRUE, value |-> NoResponse]
    ELSE [raised |-> FALSE, value |-> AskOn(results, query, configured)]

\* rag.py lines 245-281
AskOutcome(results, query, configured, fail) ==
    TryExcept(AskBody(results, query, configured, fail), AskError)

InitGate ==
    /\ g_results \in SeqsUpTo(GateResults, MaxResults)
    /\ g_query \in GateQueries
    /\ g_threshold \in GateThresholds
    /\ g_op = "none"
    /\ g_confident = FALSE
    /\ g_response = NoResponse
    /\ g_citations = <<>>

\* _check_retrieval_confidence(results, query)
GateCheck ==
    /\ g_op' = "check"
    /\ g_confident' = CheckRetrievalConfidence(g_results, g_query, g_threshold)
    /\ g_response' = NoResponse
    /\ g_citations' = <<>>
    /\ UNCHANGED <<g_results, g_query, g_threshold>>

\* ask(query) with search returning g_results
GateAsk ==
    /\ g_op' = "ask"
    /\ g_confident' = CheckRetrievalConfidence(g_results, g_query, g_threshold)
    /\ g_response' = AskOn(g_results, g_query, g_threshold)
    /\ g_citations' = <<>>
    /\ UNCHANGED <<g_results, g_query, g_threshold>>

\* format_citations(results)
GateFormat ==
    /\ g_op' = "format"
    /\ g_citations' = FormatCitations(g_results)
    /\ g_confident' = FALSE
    /\ g_response' = NoResponse
    /\ UNCHANGED <<g_results, g_query, g_threshold>>

NextGate ==
    \/ GateCheck /\ UNCHANGED <<chunkVars, indexVars, statVars, alarmVars, ingestVars, answerVars, concVars>>
    \/ GateAsk /\ UNCHANGED <<chunkVars, indexVars, statVars, alarmVars, ingestVars, answerVars, concVars>>
    \/ GateFormat /\ UNCHANGED <<chunkVars, indexVars, statVars, alarmVars, ingestVars, answerVars, concVars>>

(***************************************************************************)
(* VectorIndex                                                             *)
(*                                                                         *)
(* An embedding is a point on a line, in units whose square is             *)
(* 1/ScoreScale, so that the squared L2 distance of two embeddings is a    *)
(* score in units of 1/ScoreScale.  Texts and queries are token lists.     *)
(***************************************************************************)
QUnicorns == <<"Tell", "me", "about", "unicorns">>
QTempRange == <<"temperature", "range">>

\* SentenceTransformer.encode: deterministic for a fixed model
Embed(t) ==
    CASE t = QUnicorns -> 150
      [] t = <<"unicorn", "lore">> -> 120
      [] t = QTempRange -> 60
      [] t = <<"temperature", "limits">> -> 63
      [] t = <<"valve", "maintenance">> -> 0
      [] Len(t) > 1 /\ t[1] = "Temp_101" -> 62
      [] OTHER -> 300

\* IndexFlatL2: squared Euclidean distance
Dist(a, b) == (a - b) * (a - b)

\* DocumentChunk(text, title, page, chunk_id)
ChunkA == [text |-> <<"unicorn", "lore">>, title |-> "Myths", page |-> 1,
           chunk_id |-> "Myths_p1_c0"]
ChunkB == [text |-> <<"temperature", "limits">>, title |-> "Manual", page |-> 5,
           chunk_id |-> "Manual_p5_c0"]
ChunkC == [text |-> <<"valve", "maintenance">>, title |-> "Manual", page |-> 7,
           chunk_id |-> "Manual_p7_c1"]
ChunkD == [text |-> QUnicorns, title |-> "Myths", page |-> 2,
           chunk_id |-> "Myths_p2_c1"]

\* the chunk lists build_index is called with (or finds on disk)
Corpora ==
    {<<>>, <<ChunkC>>, <<ChunkB, ChunkC>>, <<ChunkA, ChunkB, ChunkC>>, <<ChunkD, ChunkB>>}

IndexQueries == {QUnicorns, QTempRange}

NoIndex == [present |-> FALSE, vectors |-> <<>>]
Absent == [state |-> "absent", data |-> <<>>]
Corrupt == [state |-> "corrupt", data |-> <<>>]
Stored(d) == [state |-> "ok", data |-> d]

BuildVectorsFirstOnly(cl) == <<Embed(cl[1].text)>>

\* index.py lines 91-111: the structure over the embeddings of the chunks
BuildVectors(cl) == [i \in 1..Len(cl) |-> Embed(cl[i].text)]

\* index.py lines 147-166: load_index; cur is <<self.index, self.chunks>>
LoadOutcome(ifile, cfile, cur_index, cur_chunks) ==
    IF ifile.state = "absent" \/ cfile.state = "absent"
    THEN [ok |-> FALSE, index |-> cur_index, chunks |-> cur_chunks]
    ELSE IF ifile.state = "corrupt"
    THEN [ok |-> FALSE, index |-> cur_index, chunks |-> cur_chunks]
    ELSE IF cfile.state = "corrupt"
    THEN [ok |-> FALSE, index |-> [present |-> TRUE, vectors |-> ifile.data],
          chunks |-> cur_chunks]
    ELSE [ok |-> TRUE, index |-> [present |-> TRUE, vectors |-> ifile.data],
          chunks |-> cfile.data]

\* the positions (1-based) of vs ordered by distance to qv, nearest first,
\* equal distances by position
RECURSIVE NearestFirst(_, _, _)
NearestFirst(vs, qv, left) ==
    IF left = {} THEN <<>>
    ELSE LET best == CHOOSE i \in left :
                        \A j \in left :
                            \/ Dist(vs[i], qv) < Dist(vs[j], qv)
                            \/ (Dist(vs[i], qv) = Dist(vs[j], qv) /\ i <= j)
         IN  <<best>> \o NearestFirst(vs, qv, left \ {best})

\* index.py lines 210-216
SearchResult(chunk, score) ==
    [isdict |-> TRUE, keys |-> {"text", "title", "page", "score", "chunk_id"},
     text |-> chunk.text, title |-> chunk.title, page |-> chunk.page,
     score |-> score, chunk_id |-> chunk.chunk_id]

\* index.py lines 205-216: results for the hits whose position is a chunk
RECURSIVE FormatResults(_, _, _, _)
FormatResults(hits, vs, qv, cl) ==
    IF hits = <<>> THEN <<>>
    ELSE LET pos == Head(hits)
             rest == FormatResults(Tail(hits), vs, qv, cl)
         IN  IF pos - 1 < Len(cl)
             THEN <<SearchResult(cl[pos], Dist(vs[pos], qv))>> \o rest
             ELSE rest

NegateScoresKeep(results) == results

\* index.py lines 220-221
NegateScores(results) ==
    [i \in 1..Len(results) |-> [results[i] EXCEPT !.score = -results[i].score]]

\* insert r into the list l, sorted by score descending, after its equals
RECURSIVE InsertDesc(_, _)
InsertDesc(r, l) ==
    IF l = <<>> THEN <<r>>
    ELSE IF Head(l).score >= r.score
         THEN <<Head(l)>> \o InsertDesc(r, Tail(l))
         ELSE <<r>> \o l

\* index.py line 224: results.sort(key=score, reverse=True), a stable sort
RECURSIVE SortByScoreDesc(_)
SortByScoreDesc(results) ==
    IF results = <<>> THEN <<>>
    ELSE InsertDesc(results[Len(results)],
                    SortByScoreDesc(SubSeq(results, 1, Len(results) - 1)))

\* index.py line 184: k = k or Config.RETRIEVAL_K
EffectiveK(k) == IF k = 0 THEN RETRIEVAL_K ELSE k

\* index.py lines 196-228: the search proper, on a present structure
SearchLoaded(q, k, vs, cl) ==
    LET n    == Min(EffectiveK(k), Len(vs))
        hits == SubSeq(NearestFirst(vs, Embed(q), 1..Len(vs)), 1, n)
    IN  SortByScoreDesc(NegateScores(FormatResults(hits, vs, Embed(q), cl)))

\* index.py lines 184-232: search; fail names the step that raises
\* ("none", "model" = _load_model, "encode" = model.encode)
SearchOutcome(q, k, fail) ==
    LET ld  == IF index.present
               THEN [ok |-> TRUE, index |-> index, chunks |-> ichunks]
               ELSE LoadOutcome(index_file, chunks_file, index, ichunks)
    IN  IF ~ld.ok
        THEN [results |-> <<>>, index |-> ld.index, chunks |-> ld.chunks,
              model |-> model_loaded, failed |-> TRUE]
        ELSE IF fail = "model"
        THEN [results |-> <<>>, index |-> ld.index, chunks |-> ld.chunks,
              model |-> model_loaded, failed |-> TRUE]
        ELSE IF fail = "encode"
        THEN [results |-> <<>>, index |-> ld.index, chunks |-> ld.chunks,
              model |-> TRUE, failed |-> TRUE]
        ELSE [results |-> SearchLoaded(q, k, ld.index.vectors, ld.chunks),
              index |-> ld.index, chunks |-> ld.chunks, model |-> TRUE,
              failed |-> FALSE]

SearchFailures == {"none", "model", "encode"}
AskFailures == SearchFailures \cup {"generate"}
BuildFailures == {"none", "model", "encode", "write_index", "dump_chunks"}

\* index.py lines 32-42: VectorIndex.__init__, no index files yet
InitIndex ==
    /\ model_loaded = FALSE
    /\ index = NoIndex
    /\ ichunks = <<>>
    /\ index_file = Absent
    /\ chunks_file = Absent
    /\ i_op = "none"
    /\ i_ret = FALSE
    /\ i_query = <<>>
    /\ i_k = 0
    /\ i_results = <<>>
    /\ i_response = NoResponse
    /\ i_raised = FALSE
    /\ i_retrieval_failed = FALSE
    /\ b_supplied = <<>>
    /\ b_fail = "none"

\* index.py lines 58-138: build_index(chunks) with _save_index
BuildIndex ==
    \E cl \in Corpora, fail \in BuildFailures :
        /\ (fail = "model") => ~model_loaded
        /\ i_op' = "build"
        /\ i_query' = <<>> /\ i_k' = 0 /\ i_results' = <<>> /\ i_response' = NoResponse
        /\ i_retrieval_failed' = FALSE
        /\ b_supplied' = cl
        /\ b_fail' = fail
        /\ LET body == [raised |-> cl # <<>> /\ fail \in {"model", "encode"},
                        value |-> cl # <<>>]
               ret == TryExcept(body, FALSE)
           IN  /\ i_ret' = ret.value
               /\ i_raised' = ret.raised
        /\ IF cl = <<>>
           THEN UNCHANGED <<model_loaded, index, ichunks, index_file, chunks_file>>
           ELSE /\ ichunks' = cl
                /\ IF fail = "model"
                   THEN UNCHANGED <<model_loaded, index, index_file, chunks_file>>
                   ELSE IF fail = "encode"
                   THEN /\ model_loaded' = TRUE
                        /\ UNCHANGED <<index, index_file, chunks_file>>
                   ELSE /\ model_loaded' = TRUE
                        /\ index' = [present |-> TRUE, vectors |-> BuildVectors(cl)]
                        /\ IF fail = "write_index"
                           THEN /\ index_file' \in {index_file, Corrupt}
                                /\ UNCHANGED chunks_file
                           ELSE IF fail = "dump_chunks"
                           THEN /\ index_file' = Stored(BuildVectors(cl))
                                /\ chunks_file' \in {chunks_file, Corrupt}
                           ELSE /\ index_file' = Stored(BuildVectors(cl))
                                /\ chunks_file' = Stored(cl)

\* index.py lines 140-166: load_index()
LoadIndex ==
    LET ld == LoadOutcome(index_file, chunks_file, index, ichunks)
    IN  /\ i_op' = "load"
        /\ i_ret' = ld.ok
        /\ index' = ld.index
        /\ ichunks' = ld.chunks
        /\ i_query' = <<>> /\ i_k' = 0 /\ i_results' = <<>> /\ i_response' = NoResponse
        /\ i_raised' = FALSE /\ i_retrieval_failed' = FALSE
        /\ b_supplied' = <<>> /\ b_fail' = "none"
        /\ UNCHANGED <<model_loaded, index_file, chunks_file>>

\* index.py lines 168-232: search(query, k) with k passed by the caller
Search ==
    \E q \in IndexQueries, k \in 0..MaxK, fail \in SearchFailures :
        /\ (fail = "model") => ~model_loaded
        /\ LET out == SearchOutcome(q, k, fail)
           IN  /\ i_op' = "search"
               /\ i_query' = q
               /\ i_k' = k
               /\ i_results' = out.results
               /\ index' = out.index
               /\ ichunks' = out.chunks
               /\ model_loaded' = out.model
               /\ i_ret' = FALSE
               /\ i_response' = NoResponse
               /\ i_raised' = FALSE
               /\ i_retrieval_failed' = out.failed
               /\ b_supplied' = <<>> /\ b_fail' = "none"
               /\ UNCHANGED <<index_file, chunks_file>>

\* rag.py lines 226-281 with retrieve (lines 49-58): ask(query)
Ask ==
    \E q \in IndexQueries, fail \in AskFailures :
        /\ (fail = "model") => ~model_loaded
        /\ LET out == SearchOutcome(q, RETRIEVAL_K,
                                    IF fail \in SearchFailures THEN fail ELSE "none")
               res == AskOutcome(out.results, q, DefaultScoreThreshold, fail)
           IN  /\ i_op' = "ask"
               /\ i_query' = q
               /\ i_k' = RETRIEVAL_K
               /\ i_results' = out.results
               /\ i_response' = res.value
               /\ i_raised' = res.raised
               /\ i_retrieval_failed' = out.failed
               /\ index' = out.index
               /\ ichunks' = out.chunks
               /\ model_loaded' = out.model
               /\ i_ret' = FALSE
               /\ b_supplied' = <<>> /\ b_fail' = "none"
               /\ UNCHANGED <<index_file, chunks_file>>

NextIndex ==
    \/ BuildIndex /\ UNCHANGED <<chunkVars, gateVars, statVars, alarmVars, ingestVars, answerVars, concVars>>
    \/ LoadIndex /\ UNCHANGED <<chunkVars, gateVars, statVars, alarmVars, ingestVars, answerVars, concVars>>
    \/ Search /\ UNCHANGED <<chunkVars, gateVars, statVars, alarmVars, ingestVars, answerVars, concVars>>
    \/ Ask /\ UNCHANGED <<chunkVars, gateVars, statVars, alarmVars, ingestVars, answerVars, concVars>>

(***************************************************************************)
(* AlarmAnalyzer: summary statistics                                       *)
(*                                                                         *)
(* A frame is a list of rows [timestamp, tag, value, alarm_state].  Values *)
(* are fixed-point numbers in units of 1/ValueScale, timestamps are        *)
(* counted in sampling periods.  The slope of the least-squares line is    *)
(* kept as the fraction slope_num / (slope_den * ValueScale).              *)
(***************************************************************************)
ValueScale == 100
AlarmStates == {"OK", "High", "HighHigh"}
NoState == "None"

Row(ts, tag, v, st) == [timestamp |-> ts, tag |-> tag, value |-> v, alarm_state |-> st]

RECURSIVE SumOver(_, _)
\* sum of f[i] for i in D
SumOver(f, D) ==
    IF D = {} THEN 0
    ELSE LET i == CHOOSE j \in D : TRUE
         IN  f[i] + SumOver(f, D \ {i})

\* alarms.py lines 147-148: np.polyfit(np.arange(n), values, 1), the slope of
\* the least-squares line as numerator and denominator
SlopeNum(df) ==
    LET n == Len(df)
        x == [i \in 1..n |-> i - 1]
        xy == [i \in 1..n |-> (i - 1) * df[i].value]
        y == [i \in 1..n |-> df[i].value]
    IN  n * SumOver(xy, 1..n) - SumOver(x, 1..n) * SumOver(y, 1..n)

SlopeDen(df) ==
    LET n == Len(df)
        x == [i \in 1..n |-> i - 1]
        xx == [i \in 1..n |-> (i - 1) * (i - 1)]
    IN  n * SumOver(xx, 1..n) - SumOver(x, 1..n) * SumOver(x, 1..n)

TrendDirectionInclusive(num, den) ==
    IF 10 * num >= den * ValueScale THEN "increasing"
    ELSE IF 10 * num <= -(den * ValueScale) THEN "decreasing" ELSE "stable"

TrendDirectionBySign(num, den) ==
    IF num > 0 THEN "increasing"
    ELSE IF num < 0 THEN "decreasing" ELSE "stable"

\* alarms.py line 150: the label of the slope num / (den * ValueScale), den > 0
TrendDirection(num, den) ==
    IF 10 * num > den * ValueScale THEN "increasing"
    ELSE IF 10 * num < -(den * ValueScale) THEN "decreasing" ELSE "stable"

StateChangedOrNot(prev_state, current_state) == prev_state # NoState

\* alarms.py line 186
StateChanged(prev_state, current_state) ==
    prev_state # NoState /\ prev_state # current_state

RECURSIVE ScanTransitions(_, _, _)
\* alarms.py lines 181-195: the loop over the rows from row i on
ScanTransitions(df, i, prev_state) ==
    IF i > Len(df) THEN <<>>
    ELSE LET row == df[i]
             current_state == row.alarm_state
             rest == ScanTransitions(df, i + 1, current_state)
         IN  IF StateChanged(prev_state, current_state)
             THEN <<[timestamp |-> row.timestamp, from_state |-> prev_state,
                     to_state |-> current_state, value |-> row.value]>> \o rest
             ELSE rest

\* alarms.py lines 169-195
FindAlarmTransitions(df) ==
    IF Len(df) < 2 THEN <<>> ELSE ScanTransitions(df, 1, NoState)

\* the result {} of compute_summary_stats
EmptyStats ==
    [empty |-> TRUE, count |-> 0, min_value |-> 0, max_value |-> 0,
     time_span |-> 0, slope_num |-> 0, slope_den |-> 1,
     trend_direction |-> "stable", alarm_states |-> <<>>,
     alarm_transitions |-> <<>>]

\* alarms.py line 156: value_counts().to_dict()
ValueCounts(df) ==
    [st \in {df[i].alarm_state : i \in 1..Len(df)} |->
        Cardinality({i \in 1..Len(df) : df[i].alarm_state = st})]

\* alarms.py lines 128-163
ComputeSummaryStats(df) ==
    IF df = <<>> THEN EmptyStats
    ELSE LET n == Len(df)
             num == IF n > 1 THEN SlopeNum(df) ELSE 0
             den == IF n > 1 THEN SlopeDen(df) ELSE 1
         IN  [empty |-> FALSE,
              count |-> n,
              min_value |-> CHOOSE v \in {df[i].value : i \in 1..n} :
                                \A i \in 1..n : v <= df[i].value,
              max_value |-> CHOOSE v \in {df[i].value : i \in 1..n} :
                                \A i \in 1..n : v >= df[i].value,
              time_span |-> df[n].timestamp - df[1].timestamp,
              slope_num |-> num,
              slope_den |-> den,
              trend_direction |-> IF n > 1 THEN TrendDirection(num, den) ELSE "stable",
              alarm_states |-> ValueCounts(df),
              alarm_transitions |-> FindAlarmTransitions(df)]

(***************************************************************************)
(* compute_summary_stats and _find_alarm_transitions applied to given      *)
(* frames of one tag (as the unit tests do)                                *)
(***************************************************************************)
StatValues == {0, 4, 30}

\* test_alarms.py lines 168-174
ExampleFrame ==
    <<Row(0, "Temp_101", 8500, "OK"), Row(1, "Temp_101", 9000, "OK"),
      Row(2, "Temp_101", 10500, "High"), Row(3, "Temp_101", 11500, "HighHigh"),
      Row(4, "Temp_101", 12000, "HighHigh")>>

\* two samples whose slope is exactly 0.1, exactly -0.1, and just beyond
BoundaryFrames ==
    {<<Row(0, "Temp_101", a, "OK"), Row(1, "Temp_101", b, "OK")>> :
        <<a, b>> \in {<<0, 10>>, <<10, 0>>, <<0, 11>>, <<11, 0>>}}

\* frames of up to MaxRows rows of one tag, one row per sampling period
StatFrames ==
    UNION {{[i \in 1..n |-> Row(i - 1, "Temp_101", vs[i][1], vs[i][2])] :
              vs \in [1..n -> StatValues \X AlarmStates]} : n \in 0..MaxRows}
    \cup {ExampleFrame} \cup BoundaryFrames

InitStats ==
    /\ s_df \in StatFrames
    /\ s_op = "none"
    /\ s_stats = EmptyStats
    /\ s_transitions = <<>>

\* compute_summary_stats(df)
StatsCompute ==
    /\ s_op' = "stats"
    /\ s_stats' = ComputeSummaryStats(s_df)
    /\ s_transitions' = <<>>
    /\ UNCHANGED s_df

\* _find_alarm_transitions(df)
StatsTransitions ==
    /\ s_op' = "transitions"
    /\ s_transitions' = FindAlarmTransitions(s_df)
    /\ s_stats' = EmptyStats
    /\ UNCHANGED s_df

NextStats ==
    \/ StatsCompute /\ UNCHANGED <<chunkVars, gateVars, indexVars, alarmVars, ingestVars, answerVars, concVars>>
    \/ StatsTransitions /\ UNCHANGED <<chunkVars, gateVars, indexVars, alarmVars, ingestVars, answerVars, concVars>>

(***************************************************************************)
(* AlarmAnalyzer: explain_alarm                                            *)
(*                                                                         *)
(* The analyzer owns a RAGSystem, whose VectorIndex is the index of this   *)
(* model.  Timestamps and the start and end arguments are counted in       *)
(* sampling periods; BadTime is an argument pd.to_datetime cannot parse.   *)
(***************************************************************************)
AlarmTags == {"Temp_101", "Flow_205", "Pump", "Feed Pump"}
TagArgs == AlarmTags \cup {"Unknown_Tag"}
BadTime == -1
\* the windows <<start, end>> asked for: all samples, some, one, none
\* (start after end, a window after the last sample), an unparsable start
TimeWindows == {<<0, 2>>, <<1, 2>>, <<0, 0>>, <<2, 1>>, <<3, 3>>, <<BadTime, 2>>}

\* the order of tags as strings
TagRank(tag) ==
    CASE tag = "Feed Pump" -> 1
      [] tag = "Flow_205" -> 2
      [] tag = "Pump" -> 3
      [] tag = "Temp_101" -> 4
      [] OTHER -> 5

\* rows of alarm data files, in file order
TableRising ==
    <<Row(0, "Temp_101", 8500, "OK"), Row(0, "Flow_205", 4500, "OK"),
      Row(1, "Temp_101", 9500, "High"), Row(2, "Temp_101", 11500, "HighHigh")>>
TableFlat ==
    <<Row(1, "Flow_205", 4500, "OK"), Row(2, "Flow_205", 4504, "OK")>>
TableFalling ==
    <<Row(2, "Temp_101", 9000, "High"), Row(1, "Temp_101", 12000, "High")>>
\* one tag in HighHigh throughout, the other drifting upwards without alarm
TableDrift ==
    <<Row(0, "Temp_101", 12000, "HighHigh"), Row(0, "Flow_205", 4000, "OK"),
      Row(1, "Temp_101", 12004, "HighHigh"), Row(1, "Flow_205", 3000, "OK"),
      Row(2, "Flow_205", 4500, "OK")>>
\* tags that are, or contain, a word of the gate's keyword list
TablePumps ==
    <<Row(0, "Feed Pump", 200, "OK"), Row(1, "Pump", 4500, "OK"),
      Row(1, "Feed Pump", 200, "High"), Row(2, "Pump", 4504, "OK")>>
AlarmTables == {<<>>, TableRising, TableFlat, TableFalling, TableDrift, TablePumps}
AlarmFiles == {Absent, Corrupt} \cup {Stored(t) : t \in AlarmTables}

\* row a sorts before row b by (timestamp, tag)
RowBefore(a, b) ==
    \/ a.timestamp < b.timestamp
    \/ a.timestamp = b.timestamp /\ TagRank(a.tag) < TagRank(b.tag)

RECURSIVE InsertRow(_, _)
InsertRow(r, l) ==
    IF l = <<>> THEN <<r>>
    ELSE IF RowBefore(r, Head(l)) THEN <<r>> \o l
         ELSE <<Head(l)>> \o InsertRow(r, Tail(l))

RECURSIVE SortRows(_)
\* alarms.py line 65: df.sort_values(['timestamp', 'tag'])
SortRows(rows) ==
    IF rows = <<>> THEN <<>>
    ELSE InsertRow(rows[Len(rows)], SortRows(SubSeq(rows, 1, Len(rows) - 1)))

\* alarms.py lines 52-75: load_alarm_data; a missing file and a file that
\* read_csv or to_datetime rejects give the empty frame
LoadAlarmData(file) ==
    IF file.state # "ok" THEN <<>> ELSE SortRows(file.data)

SliceByTimeOnly(df, tag, start_time, end_time) ==
    IF start_time = BadTime \/ end_time = BadTime THEN <<>>
    ELSE LET InWindow(r) == r.timestamp >= start_time /\ r.timestamp <= end_time
         IN  SelectSeq(df, InWindow)

\* alarms.py lines 90-110: slice_by_time
SliceByTime(df, tag, start_time, end_time) ==
    IF start_time = BadTime \/ end_time = BadTime THEN <<>>
    ELSE LET InMask(r) ==
                 /\ r.tag = tag
                 /\ r.timestamp >= start_time
                 /\ r.timestamp <= end_time
         IN  SelectSeq(df, InMask)

\* the text of a data summary: its opening words and the figures it shows
Summary(kind, tag, count, trend, changes, critical) ==
    [kind |-> kind, tag |-> tag, count |-> count, trend |-> trend,
     changes |-> changes, critical |-> critical]

\* 'High' in t['to_state']
IsCritical(t) == t.to_state \in {"High", "HighHigh"}

\* alarms.py lines 208-235: format_data_summary
FormatDataSummary(stats, tag) ==
    IF stats.empty THEN Summary("No data available for", tag, 0, "", 0, 0)
    ELSE Summary("Process tag analysis", tag, stats.count, stats.trend_direction,
                 Len(stats.alarm_transitions),
                 Len(SelectSeq(stats.alarm_transitions, IsCritical)))

\* the whitespace-separated words of a tag (str.split)
TagWords(tag) == IF tag = "Feed Pump" THEN <<"Feed", "Pump">> ELSE <<tag>>

GuidanceQueryAlarmOrTrend(tag, stats) ==
    LET alarm_states == DOMAIN stats.alarm_states
        trend == stats.trend_direction
    IN  TagWords(tag) \o
        (IF "HighHigh" \in alarm_states
         THEN <<"high", "high", "alarm", "response", "procedure">>
         ELSE IF "High" \in alarm_states
         THEN <<"high", "alarm", "response", "procedure">>
         ELSE IF trend = "increasing" THEN <<"rising", "trend", "troubleshooting">>
         ELSE IF trend = "decreasing" THEN <<"falling", "trend", "troubleshooting">>
         ELSE <<>>)

\* alarms.py lines 255-272: the guidance query, as the list of its words
GuidanceQuery(tag, stats) ==
    LET alarm_states == DOMAIN stats.alarm_states
        alarm_part == IF "HighHigh" \in alarm_states
                      THEN <<"high", "high", "alarm", "response", "procedure">>
                      ELSE IF "High" \in alarm_states
                      THEN <<"high", "alarm", "response", "procedure">>
                      ELSE <<>>
        trend == stats.trend_direction
        trend_part == IF trend = "increasing"
                      THEN <<"rising", "trend", "troubleshooting">>
                      ELSE IF trend = "decreasing"
                      THEN <<"falling", "trend", "troubleshooting">>
                      ELSE <<>>
    IN  TagWords(tag) \o alarm_part \o trend_part

\* alarms.py lines 305-309, 314-318, 335-339: the results without guidance
NoAlarmData ==
    [summary_from_data |-> Summary("No alarm data available.", "", 0, "", 0, 0),
     answer |-> "Cannot provide guidance without alarm data.",
     citations |-> <<>>]
NoDataFound(tag) ==
    [summary_from_data |-> Summary("No data found for", tag, 0, "", 0, 0),
     answer |-> "Cannot analyze - no data available for this tag and time period.",
     citations |-> <<>>]
ExplainError(tag) ==
    [summary_from_data |-> Summary("Error analyzing", tag, 0, "", 0, 0),
     answer |-> "Unable to provide guidance due to analysis error.",
     citations |-> <<>>]
NoResult ==
    [summary_from_data |-> Summary("", "", 0, "", 0, 0), answer |-> "",
     citations |-> <<>>]

\* the steps of explain_alarm that can raise: compute_summary_stats (caught
\* there, giving {}), format_data_summary, and those of ask
ExplainFailures == {"none", "stats", "summary", "model", "encode", "generate"}

\* the index files an analyzer may find
IndexFileStates ==
    {[ifile |-> Absent, cfile |-> Absent],
     [ifile |-> Corrupt, cfile |-> Stored(<<ChunkB, ChunkC>>)],
     [ifile |-> Stored(BuildVectors(<<ChunkB, ChunkC>>)), cfile |-> Corrupt],
     [ifile |-> Stored(BuildVectors(<<ChunkB, ChunkC>>)),
      cfile |-> Stored(<<ChunkB, ChunkC>>)]}

AlarmNotCalled ==
    /\ a_op = "none"
    /\ a_tag = ""
    /\ a_start = 0
    /\ a_end = 0
    /\ a_result = NoResult
    /\ a_raised = FALSE
    /\ a_asked = FALSE
    /\ a_query = <<>>

\* alarms.py lines 33-34 with rag.py lines 29-36: AlarmAnalyzer() builds a
\* RAGSystem, which tries to load the index; the index files may also
\* appear after that
InitAlarm ==
    /\ alarm_file \in AlarmFiles
    /\ AlarmNotCalled
    /\ \E p \in IndexFileStates, at_construction \in BOOLEAN :
          LET ld == IF at_construction
                    THEN LoadOutcome(p.ifile, p.cfile, NoIndex, <<>>)
                    ELSE [ok |-> FALSE, index |-> NoIndex, chunks |-> <<>>]
          IN  /\ index_file = p.ifile
              /\ chunks_file = p.cfile
              /\ index = ld.index
              /\ ichunks = ld.chunks
    /\ model_loaded = FALSE
    /\ i_op = "none"
    /\ i_ret = FALSE
    /\ i_query = <<>>
    /\ i_k = 0
    /\ i_results = <<>>
    /\ i_response = NoResponse
    /\ i_raised = FALSE
    /\ i_retrieval_failed = FALSE
    /\ b_supplied = <<>>
    /\ b_fail = "none"

\* alarms.py lines 279-339: explain_alarm(tag, start, end)
ExplainAlarm ==
    \E tag \in TagArgs, w \in TimeWindows, fail \in ExplainFailures :
        /\ (fail = "model") => ~model_loaded
        /\ LET st       == w[1]
               en       == w[2]
               df       == LoadAlarmData(alarm_file)
               filtered == SliceByTime(df, tag, st, en)
               stats    == IF fail = "stats" THEN EmptyStats
                           ELSE ComputeSummaryStats(filtered)
               query    == GuidanceQuery(tag, stats)
               asks     == df # <<>> /\ filtered # <<>> /\ fail # "summary"
               sr       == SearchOutcome(query, RETRIEVAL_K,
                                         IF fail \in SearchFailures THEN fail ELSE "none")
               guidance == AskOutcome(sr.results, query, DefaultScoreThreshold,
                                      IF fail \in AskFailures THEN fail ELSE "none")
               body     == IF df = <<>>
                           THEN [raised |-> FALSE, value |-> NoAlarmData]
                           ELSE IF filtered = <<>>
                           THEN [raised |-> FALSE, value |-> NoDataFound(tag)]
                           ELSE IF fail = "summary" \/ guidance.raised
                           THEN [raised |-> TRUE, value |-> NoResult]
                           ELSE [raised |-> FALSE,
                                 value |->
                                     [summary_from_data |-> FormatDataSummary(stats, tag),
                                      answer |-> guidance.value.answer,
                                      citations |-> guidance.value.citations]]
               out      == TryExcept(body, ExplainError(tag))
           IN  /\ a_op' = "explain"
               /\ a_tag' = tag
               /\ a_start' = st
               /\ a_end' = en
               /\ a_result' = out.value
               /\ a_raised' = out.raised
               /\ a_asked' = asks
               /\ a_query' = IF asks THEN query ELSE <<>>
               /\ index' = IF asks THEN sr.index ELSE index
               /\ ichunks' = IF asks THEN sr.chunks ELSE ichunks
               /\ model_loaded' = IF asks THEN sr.model ELSE model_loaded
        /\ i_op' = "none"
        /\ i_ret' = FALSE
        /\ i_query' = <<>> /\ i_k' = 0 /\ i_results' = <<>> /\ i_response' = NoResponse
        /\ i_raised' = FALSE /\ i_retrieval_failed' = FALSE
        /\ b_supplied' = <<>> /\ b_fail' = "none"
        /\ UNCHANGED <<alarm_file, index_file, chunks_file>>

\* ask(query) on the analyzer's RAGSystem
AlarmAsk ==
    /\ Ask
    /\ a_op' = "none"
    /\ a_tag' = ""
    /\ a_start' = 0
    /\ a_end' = 0
    /\ a_result' = NoResult
    /\ a_raised' = FALSE
    /\ a_asked' = FALSE
    /\ a_query' = <<>>
    /\ UNCHANGED alarm_file

NextAlarm ==
    \/ ExplainAlarm /\ UNCHANGED <<chunkVars, gateVars, statVars, ingestVars, answerVars, concVars>>
    \/ AlarmAsk /\ UNCHANGED <<chunkVars, gateVars, statVars, ingestVars, answerVars, concVars>>

(***************************************************************************)
(* DocumentIngester: create_chunks and ingest_pdfs                         *)
(*                                                                         *)
(* Titles and chunk ids are strings (sequences of characters), so that the *)
(* id of a chunk is the text f"{title}_p{page}_c{n}" and two ids are equal *)
(* exactly when their texts are.                                           *)
(***************************************************************************)

RECURSIVE ChunkLoop(_, _, _, _, _, _)
\* utils.py lines 50-90: the window loop from start s on, with the chunks
\* collected so far
ChunkLoop(t, cs, ov, s, acc, count) ==
    IF ~(s < Len(t) /\ count < max_chunks) THEN acc
    ELSE LET end       == WindowEnd(t, s, cs)
             chunk     == Strip(Slice(t, s, end))
             acc1      == IF chunk # <<>> THEN Append(acc, chunk) ELSE acc
             new_start == NextStart(s, end, ov, cs)
             remaining == Strip(Slice(t, new_start, Len(t)))
         IN  IF Len(t) - new_start < cs \div 2
             THEN IF remaining # <<>> /\ ~InList(remaining, acc1)
                  THEN Append(acc1, remaining)
                  ELSE acc1
             ELSE ChunkLoop(t, cs, ov, new_start, acc1, count + 1)

\* utils.py lines 27-98: the list chunk_text returns (0 stands for an
\* argument that is not given)
ChunkTextOf(t0, cs0, ov0) ==
    LET cs == IF cs0 = 0 THEN CHUNK_SIZE ELSE cs0
        ov == IF ov0 = 0 THEN CHUNK_OVERLAP ELSE ov0
        t  == Strip(t0)
    IN  IF t = <<>> THEN <<>>
        ELSE IF Len(t) <= cs THEN <<t>>
        ELSE ChunkLoop(t, cs, ov, 0, <<>>, 0)

DigitChar(d) ==
    CASE d = 0 -> "0" [] d = 1 -> "1" [] d = 2 -> "2" [] d = 3 -> "3" [] d = 4 -> "4"
      [] d = 5 -> "5" [] d = 6 -> "6" [] d = 7 -> "7" [] d = 8 -> "8" [] d = 9 -> "9"

RECURSIVE Digits(_)
\* str(n) for n >= 0
Digits(n) == IF n < 10 THEN <<DigitChar(n)>> ELSE Digits(n \div 10) \o <<DigitChar(n % 10)>>

ChunkIdNoTitle(title, page_num, chunk_counter) ==
    <<"_", "p">> \o Digits(page_num) \o <<"_", "c">> \o Digits(chunk_counter)

\* ingest.py line 131: f"{title}_p{page_num}_c{chunk_counter}"
ChunkId(title, page_num, chunk_counter) ==
    title \o <<"_", "p">> \o Digits(page_num) \o <<"_", "c">> \o Digits(chunk_counter)

RECURSIVE CreateChunksFrom(_, _, _, _)
\* ingest.py lines 123-141: the loop over the pages from page i on
CreateChunksFrom(pages_text, title, i, chunk_counter) ==
    IF i > Len(pages_text) THEN <<>>
    ELSE LET page_num    == pages_text[i].page
             page_chunks == ChunkTextOf(pages_text[i].text, 0, 0)
             made == [j \in 1..Len(page_chunks) |->
                         [text |-> page_chunks[j], title |-> title, page |-> page_num,
                          chunk_id |-> ChunkId(title, page_num, chunk_counter + j - 1)]]
         IN  made \o CreateChunksFrom(pages_text, title, i + 1,
                                      chunk_counter + Len(page_chunks))

\* ingest.py lines 103-144
CreateChunks(pages_text, title) == CreateChunksFrom(pages_text, title, 1, 0)

\* page texts: one chunk, two chunks, chunks cut at a sentence end, none
PageShort == <<"a">>
PageLong == [i \in 1..700 |-> "a"]
PageSentences == [i \in 1..650 |-> IF i = 591 THEN "." ELSE IF i = 592 THEN " " ELSE "a"]
PageBlank == <<>>

Page(n, t) == [page |-> n, text |-> t]

\* what extract_pdf_text returns for a file: its pages with text, in order
\* (the empty list for a file it cannot read)
PageLists ==
    {<<>>,
     <<Page(1, PageShort)>>,
     <<Page(1, PageLong)>>,
     <<Page(1, PageShort), Page(2, PageLong)>>,
     <<Page(1, PageLong), Page(3, PageSentences)>>,
     <<Page(2, PageBlank), Page(11, PageShort)>>}

\* file names without the extension
IngestTitles ==
    {<<"d">>, <<"d", "_", "p", "1">>, <<"d", "_", "p", "1", "_", "c">>,
     <<"d", "_", "p", "1", "_", "c", "0">>}

\* the files of the PDF directory: distinct names, up to MaxDocs of them
PdfDirs ==
    {fs \in UNION {[1..n -> [title : IngestTitles, pages : PageLists]] : n \in 0..MaxDocs} :
        \A i, j \in 1..Len(fs) : i # j => fs[i].title # fs[j].title}

InitIngest ==
    /\ pdf_files \in PdfDirs
    /\ n_done = 0
    /\ all_chunks = <<>>
    /\ processed_file = Absent
    /\ ipc = "call"

\* ingest.py lines 193-204: no files, or the loop starts
IngestStart ==
    /\ ipc = "call"
    /\ ipc' = IF pdf_files = <<>> THEN "done" ELSE "loop"
    /\ UNCHANGED <<pdf_files, n_done, all_chunks, processed_file>>

\* ingest.py lines 206-220: one file
IngestFile ==
    /\ ipc = "loop"
    /\ n_done < Len(pdf_files)
    /\ LET pdf_file   == pdf_files[n_done + 1]
           pages_text == pdf_file.pages
       IN  all_chunks' = IF pages_text = <<>> THEN all_chunks
                         ELSE all_chunks \o CreateChunks(pages_text, pdf_file.title)
    /\ n_done' = n_done + 1
    /\ UNCHANGED <<pdf_files, processed_file, ipc>>

\* ingest.py lines 222-227: save_chunks and return
IngestFinish ==
    /\ ipc = "loop"
    /\ n_done = Len(pdf_files)
    /\ processed_file' = IF all_chunks # <<>> THEN Stored(all_chunks) ELSE processed_file
    /\ ipc' = "done"
    /\ UNCHANGED <<pdf_files, n_done, all_chunks>>

NextIngest ==
    \/ IngestStart /\ UNCHANGED <<chunkVars, gateVars, indexVars, statVars, alarmVars, answerVars, concVars>>
    \/ IngestFile /\ UNCHANGED <<chunkVars, gateVars, indexVars, statVars, alarmVars, answerVars, concVars>>
    \/ IngestFinish /\ UNCHANGED <<chunkVars, gateVars, indexVars, statVars, alarmVars, answerVars, concVars>>

(***************************************************************************)
(* _generate_answer                                                        *)
(*                                                                         *)
(* A query and a context are sequences of lexemes: the literal markers and *)
(* keywords the function looks for, the newline, the space, the period,    *)
(* and other words and phrases.  `x in text` for a marker or keyword x is  *)
(* the occurrence of the lexeme; len(text) is the sum of the lengths of    *)
(* the lexemes.                                                            *)
(***************************************************************************)
NL == "\n"
Period == "."
SourceTag == "[Source"
RangeMarker == "Normal Operating Range:"
SetpointMarker == "High Alarm Setpoint:"
CalMarker == "calibration procedure:"
MaintMarker == "preventive maintenance:"
\* rag.py line 198; "1.", "2." and "3." of that list cannot occur in a piece
\* of clean_context.split('.')
ProcedureWords == {"check", "verify", "reduce"}
MinProcedureLen == 10
MaxProcedureLen == 200
MinSentenceLen == 20
MaxRawLen == 300

Has(s, x) == \E i \in 1..Len(s) : s[i] = x
LowerSeq(s) == [i \in 1..Len(s) |-> Lower(s[i])]

RECURSIVE TextLen(_)
\* len(s) in characters
TextLen(s) == IF s = <<>> THEN 0 ELSE Len(Head(s)) + TextLen(Tail(s))

RECURSIVE SplitOn(_, _)
\* s.split(sep)
SplitOn(s, sep) ==
    IF ~Has(s, sep) THEN <<s>>
    ELSE LET i == CHOOSE j \in 1..Len(s) : s[j] = sep /\ \A m \in 1..(j - 1) : s[m] # sep
         IN  <<SubSeq(s, 1, i - 1)>> \o SplitOn(SubSeq(s, i + 1, Len(s)), sep)

RECURSIVE JoinWith(_, _)
\* sep.join(parts)
JoinWith(parts, sep) ==
    IF parts = <<>> THEN <<>>
    ELSE IF Len(parts) = 1 THEN parts[1]
    ELSE parts[1] \o sep \o JoinWith(Tail(parts), sep)

\* s[:n] of a list
FirstN(s, n) == SubSeq(s, 1, Min(n, Len(s)))

\* rag.py line 170: not context or not context.strip()
BlankContext(context) == \A i \in 1..Len(context) : context[i] \in {" ", NL}

RECURSIVE CleanLines(_)
\* rag.py lines 174-177, over the lines that are left
CleanLines(lines) ==
    IF lines = <<>> THEN <<>>
    ELSE LET line == Head(lines)
             stripped == Strip(line)
         IN  (IF stripped # <<>> /\ stripped[1] = SourceTag
              THEN <<>> ELSE line \o <<" ">>) \o CleanLines(Tail(lines))

\* rag.py lines 173-177: clean_context
CleanContext(context) == CleanLines(SplitOn(context, NL))

SentenceOf(p) == Strip(p)

\* rag.py lines 194-200: the sentences kept as procedures
IsProcedure(sentence) ==
    /\ \E word \in ProcedureWords : Has(LowerSeq(sentence), word)
    /\ TextLen(sentence) > MinProcedureLen
    /\ TextLen(sentence) < MaxProcedureLen
Procedures(clean_context) ==
    LET pieces == SplitOn(clean_context, Period)
    IN  SelectSeq([i \in 1..Len(pieces) |-> SentenceOf(pieces[i])], IsProcedure)

\* rag.py line 214: the sentences of the default rule
IsMeaningful(sentence) == TextLen(sentence) > MinSentenceLen
Meaningful(clean_context) ==
    LET pieces == SplitOn(clean_context, Period)
    IN  SelectSeq([i \in 1..Len(pieces) |-> SentenceOf(pieces[i])], IsMeaningful)

QueryHas(query, kw) == Has(LowerSeq(query), kw)

\* rag.py lines 183-184, 192 and 202, 206-207: the conditions under which a
\* rule returns
RuleReturns(rule, query, clean_context) ==
    CASE rule = "temperature" ->
             /\ QueryHas(query, "temperature") /\ QueryHas(query, "range")
             /\ Has(clean_context, RangeMarker)
      [] rule = "alarm" ->
             /\ QueryHas(query, "alarm") \/ QueryHas(query, "procedure")
             /\ Procedures(clean_context) # <<>>
      [] rule = "calibration" ->
             /\ QueryHas(query, "calibration") \/ QueryHas(query, "calibrate")
             /\ Has(LowerSeq(clean_context), CalMarker)
      [] OTHER -> TRUE

CalibrationFirst(query, clean_context) ==
    IF RuleReturns("calibration", query, clean_context) THEN "calibration"
    ELSE IF RuleReturns("temperature", query, clean_context) THEN "temperature"
    ELSE IF RuleReturns("alarm", query, clean_context) THEN "alarm"
    ELSE "default"

\* rag.py lines 182-213: the order of the rules
FirstMatching(query, clean_context) ==
    IF RuleReturns("temperature", query, clean_context) THEN "temperature"
    ELSE IF RuleReturns("alarm", query, clean_context) THEN "alarm"
    ELSE IF RuleReturns("calibration", query, clean_context) THEN "calibration"
    ELSE "default"

\* an answer is the rule that made it and the text the rule extracted
Answer(rule, t) == [rule |-> rule, text |-> t]
NoAnswer == Answer("", <<>>)

\* rag.py lines 186-189, 203, 208-211, 214-223: what a rule returns
RuleAnswer(rule, clean_context) ==
    CASE rule = "temperature" ->
             Answer(rule, Strip(SplitOn(SplitOn(clean_context, RangeMarker)[2],
                                        SetpointMarker)[1]))
      [] rule = "alarm" ->
             Answer(rule, JoinWith(FirstN(Procedures(clean_context), 3),
                                   <<Period, " ">>) \o <<Period>>)
      [] rule = "calibration" ->
             Answer(rule, Strip(SplitOn(SplitOn(LowerSeq(clean_context), CalMarker)[2],
                                        MaintMarker)[1]))
      [] OTHER ->
             IF Meaningful(clean_context) # <<>>
             THEN Answer("default", JoinWith(FirstN(Meaningful(clean_context), 2),
                                             <<Period, " ">>) \o <<Period>>)
             ELSE IF TextLen(clean_context) > MaxRawLen
                  THEN Answer("truncated", clean_context)
                  ELSE Answer("raw", clean_context)

\* rag.py lines 152-223
GenerateAnswer(query, context) ==
    IF context = <<>> \/ BlankContext(context)
    THEN Answer("none", <<>>)
    ELSE LET clean_context == CleanContext(context)
         IN  RuleAnswer(FirstMatching(query, clean_context), clean_context)

Phrase == "the cooling water supply"

\* lines of retrieved text
AnswerLines ==
    {<<>>,
     <<" ">>,
     <<RangeMarker, " ", "20-25C", " ", SetpointMarker, " ", "85C", Period>>,
     <<SourceTag, " ", RangeMarker, " ", "20-25C">>,
     <<"Check", " ", Phrase, Period, " ", "reduce", " ", Phrase, Period>>,
     <<"Calibration Procedure:", " ", "verify", " ", "zero", Period, " ",
       "Preventive Maintenance:", " ", "yearly", Period>>,
     <<"Calibration Procedure:", " ", "yearly">>,
     <<Phrase, " ", Phrase, Period>>,
     <<"check", Period>>}

AnswerContexts ==
    {JoinWith(ls, <<NL>>) : ls \in SeqsUpTo(AnswerLines, MaxLines)}

AnswerQueries ==
    {<<"temperature", "range">>,
     <<"Temperature", "range", "alarm">>,
     <<"temperature", "range", "calibration", "procedure">>,
     <<"alarm">>,
     <<"calibration", "procedure">>,
     <<"calibrate">>,
     <<"calibration">>,
     <<"temperature">>,
     <<"unicorns">>,
     <<>>}

InitAnswer ==
    /\ ga_query \in AnswerQueries
    /\ ga_context \in AnswerContexts
    /\ ga_answer = NoAnswer
    /\ ga_op = "call"

\* _generate_answer(query, context)
GenerateAnswerCall ==
    /\ ga_op = "call"
    /\ ga_answer' = GenerateAnswer(ga_query, ga_context)
    /\ ga_op' = "done"
    /\ UNCHANGED <<ga_query, ga_context>>

NextAnswer ==
    \/ GenerateAnswerCall /\ UNCHANGED <<chunkVars, gateVars, indexVars, statVars, alarmVars, ingestVars, concVars>>

(***************************************************************************)
(* Concurrent searches on one VectorIndex                                  *)
(*                                                                         *)
(* Threads call search(query, k) on the same instance; no build runs.  A   *)
(* step is one access to an attribute of the instance (self.index,         *)
(* self.chunks, self.model) or to a file, with the local computation that  *)
(* follows it.                                                             *)
(***************************************************************************)
Threads == {"t1", "t2"}
ConcKs == {0, 1}

lastCallVars == <<i_op, i_ret, i_query, i_k, i_results, i_response, i_raised,
                  i_retrieval_failed, b_supplied, b_fail>>

InitConc ==
    /\ t_pc = [t \in Threads |-> "idle"]
    /\ t_q = [t \in Threads |-> <<>>]
    /\ t_k = [t \in Threads |-> 0]
    /\ t_hits = [t \in Threads |-> <<>>]
    /\ t_res = [t \in Threads |-> <<>>]
    /\ \E p \in IndexFileStates, at_construction \in BOOLEAN :
          LET ld == IF at_construction
                    THEN LoadOutcome(p.ifile, p.cfile, NoIndex, <<>>)
                    ELSE [ok |-> FALSE, index |-> NoIndex, chunks |-> <<>>]
          IN  /\ index_file = p.ifile
              /\ chunks_file = p.cfile
              /\ index = ld.index
              /\ ichunks = ld.chunks
    /\ model_loaded = FALSE
    /\ i_op = "none"
    /\ i_ret = FALSE
    /\ i_query = <<>>
    /\ i_k = 0
    /\ i_results = <<>>
    /\ i_response = NoResponse
    /\ i_raised = FALSE
    /\ i_retrieval_failed = FALSE
    /\ b_supplied = <<>>
    /\ b_fail = "none"

\* search returns results to the caller t
Return(t, results) ==
    /\ t_pc' = [t_pc EXCEPT ![t] = "done"]
    /\ t_res' = [t_res EXCEPT ![t] = results]
    /\ t_hits' = [t_hits EXCEPT ![t] = <<>>]

Goto(t, pc) == t_pc' = [t_pc EXCEPT ![t] = pc]

\* index.py line 168: a caller enters search(query, k)
CallSearch(t) ==
    /\ t_pc[t] = "idle"
    /\ \E q \in IndexQueries, k \in ConcKs :
          /\ t_q' = [t_q EXCEPT ![t] = q]
          /\ t_k' = [t_k EXCEPT ![t] = k]
    /\ Goto(t, "check_index")
    /\ UNCHANGED <<t_hits, t_res, model_loaded, index, ichunks>>

\* index.py line 188: if self.index is None
CheckIndex(t) ==
    /\ t_pc[t] = "check_index"
    /\ Goto(t, IF index.present THEN "load_model" ELSE "files_exist")
    /\ UNCHANGED <<t_q, t_k, t_hits, t_res, model_loaded, index, ichunks>>

\* index.py lines 148-150 with 189-191: load_index finds no files
FilesExist(t) ==
    /\ t_pc[t] = "files_exist"
    /\ IF index_file.state = "absent" \/ chunks_file.state = "absent"
       THEN Return(t, <<>>)
       ELSE Goto(t, "read_index") /\ UNCHANGED <<t_hits, t_res>>
    /\ UNCHANGED <<t_q, t_k, model_loaded, index, ichunks>>

\* index.py line 153: self.index = faiss.read_index(...)
ReadIndex(t) ==
    /\ t_pc[t] = "read_index"
    /\ IF index_file.state = "corrupt"
       THEN Return(t, <<>>) /\ UNCHANGED index
       ELSE /\ index' = [present |-> TRUE, vectors |-> index_file.data]
            /\ Goto(t, "read_chunks")
            /\ UNCHANGED <<t_hits, t_res>>
    /\ UNCHANGED <<t_q, t_k, model_loaded, ichunks>>

\* index.py lines 156-157: self.chunks = pickle.load(f)
ReadChunks(t) ==
    /\ t_pc[t] = "read_chunks"
    /\ IF chunks_file.state = "corrupt"
       THEN Return(t, <<>>) /\ UNCHANGED ichunks
       ELSE /\ ichunks' = chunks_file.data
            /\ Goto(t, "load_model")
            /\ UNCHANGED <<t_hits, t_res>>
    /\ UNCHANGED <<t_q, t_k, model_loaded, index>>

\* index.py lines 193-197: the model, and the embedding of the query
LoadModel(t) ==
    /\ t_pc[t] = "load_model"
    /\ model_loaded' = TRUE
    /\ Goto(t, "index_search")
    /\ UNCHANGED <<t_q, t_k, t_hits, t_res, index, ichunks>>

\* index.py lines 200-203: self.index.search; a hit is a position with its
\* distance
IndexSearch(t) ==
    /\ t_pc[t] = "index_search"
    /\ LET vs == index.vectors
           qv == Embed(t_q[t])
           n  == Min(EffectiveK(t_k[t]), Len(vs))
           order == SubSeq(NearestFirst(vs, qv, 1..Len(vs)), 1, n)
       IN  t_hits' = [t_hits EXCEPT
                         ![t] = [i \in 1..n |-> [pos |-> order[i],
                                                  dist |-> Dist(vs[order[i]], qv)]]]
    /\ Goto(t, "format")
    /\ UNCHANGED <<t_q, t_k, t_res, model_loaded, index, ichunks>>

\* index.py lines 207-216: one iteration of the loop over the hits
FormatHit(t) ==
    /\ t_pc[t] = "format"
    /\ t_hits[t] # <<>>
    /\ LET hit == Head(t_hits[t])
       IN  t_res' = [t_res EXCEPT
                        ![t] = IF hit.pos - 1 < Len(ichunks)
                               THEN Append(@, SearchResult(ichunks[hit.pos], hit.dist))
                               ELSE @]
    /\ t_hits' = [t_hits EXCEPT ![t] = Tail(@)]
    /\ UNCHANGED <<t_pc, t_q, t_k, model_loaded, index, ichunks>>

\* index.py lines 220-228: negate, sort, return
FinishSearch(t) ==
    /\ t_pc[t] = "format"
    /\ t_hits[t] = <<>>
    /\ Return(t, SortByScoreDesc(NegateScores(t_res[t])))
    /\ UNCHANGED <<t_q, t_k, model_loaded, index, ichunks>>

concFrame == <<index_file, chunks_file, lastCallVars>>

ConcCall == \E t \in Threads : CallSearch(t) /\ UNCHANGED concFrame
ConcCheckIndex == \E t \in Threads : CheckIndex(t) /\ UNCHANGED concFrame
ConcFilesExist == \E t \in Threads : FilesExist(t) /\ UNCHANGED concFrame
ConcReadIndex == \E t \in Threads : ReadIndex(t) /\ UNCHANGED concFrame
ConcReadChunks == \E t \in Threads : ReadChunks(t) /\ UNCHANGED concFrame
ConcLoadModel == \E t \in Threads : LoadModel(t) /\ UNCHANGED concFrame
ConcIndexSearch == \E t \in Threads : IndexSearch(t) /\ UNCHANGED concFrame
ConcFormatHit == \E t \in Threads : FormatHit(t) /\ UNCHANGED concFrame
ConcFinish == \E t \in Threads : FinishSearch(t) /\ UNCHANGED concFrame

NextConc ==
    \/ ConcCall /\ UNCHANGED <<chunkVars, gateVars, statVars, alarmVars, ingestVars, answerVars>>
    \/ ConcCheckIndex /\ UNCHANGED <<chunkVars, gateVars, statVars, alarmVars, ingestVars, answerVars>>
    \/ ConcFilesExist /\ UNCHANGED <<chunkVars, gateVars, statVars, alarmVars, ingestVars, answerVars>>
    \/ ConcReadIndex /\ UNCHANGED <<chunkVars, gateVars, statVars, alarmVars, ingestVars, answerVars>>
    \/ ConcReadChunks /\ UNCHANGED <<chunkVars, gateVars, statVars, alarmVars, ingestVars, answerVars>>
    \/ ConcLoadModel /\ UNCHANGED <<chunkVars, gateVars, statVars, alarmVars, ingestVars, answerVars>>
    \/ ConcIndexSearch /\ UNCHANGED <<chunkVars, gateVars, statVars, alarmVars, ingestVars, answerVars>>
    \/ ConcFormatHit /\ UNCHANGED <<chunkVars, gateVars, statVars, alarmVars, ingestVars, answerVars>>
    \/ ConcFinish /\ UNCHANGED <<chunkVars, gateVars, statVars, alarmVars, ingestVars, answerVars>>

(***************************************************************************)
(* Specifications                                                          *)
(***************************************************************************)
ChunkOff ==
    /\ text = <<>>
    /\ chunk_size = 0
    /\ overlap = 0
    /\ start = 0
    /\ chunks = <<>>
    /\ chunk_count = 0
    /\ windows = {}
    /\ truncated = FALSE
    /\ cpc = "off"

GateOff ==
    /\ g_results = <<>>
    /\ g_query = <<>>
    /\ g_threshold = DefaultScoreThreshold
    /\ g_op = "none"
    /\ g_confident = FALSE
    /\ g_response = NoResponse
    /\ g_citations = <<>>

StatOff ==
    /\ s_df = <<>>
    /\ s_op = "none"
    /\ s_stats = EmptyStats
    /\ s_transitions = <<>>

AlarmOff ==
    /\ alarm_file = Absent
    /\ AlarmNotCalled

IngestOff ==
    /\ pdf_files = <<>>
    /\ n_done = 0
    /\ all_chunks = <<>>
    /\ processed_file = Absent
    /\ ipc = "off"

AnswerOff ==
    /\ ga_query = <<>>
    /\ ga_context = <<>>
    /\ ga_answer = NoAnswer
    /\ ga_op = "off"

ConcOff ==
    /\ t_pc = [t \in Threads |-> "off"]
    /\ t_q = [t \in Threads |-> <<>>]
    /\ t_k = [t \in Threads |-> 0]
    /\ t_hits = [t \in Threads |-> <<>>]
    /\ t_res = [t \in Threads |-> <<>>]

InitSpecChunk == InitChunk /\ GateOff /\ InitIndex /\ StatOff /\ AlarmOff /\ IngestOff /\ AnswerOff /\ ConcOff
InitSpecGate == InitGate /\ ChunkOff /\ InitIndex /\ StatOff /\ AlarmOff /\ IngestOff /\ AnswerOff /\ ConcOff
InitSpecIndex == InitIndex /\ ChunkOff /\ GateOff /\ StatOff /\ AlarmOff /\ IngestOff /\ AnswerOff /\ ConcOff
InitSpecStats == InitStats /\ ChunkOff /\ GateOff /\ InitIndex /\ AlarmOff /\ IngestOff /\ AnswerOff /\ ConcOff
InitSpecAlarm == InitAlarm /\ ChunkOff /\ GateOff /\ StatOff /\ IngestOff /\ AnswerOff /\ ConcOff
InitSpecIngest == InitIngest /\ ChunkOff /\ GateOff /\ InitIndex /\ StatOff /\ AlarmOff /\ AnswerOff /\ ConcOff
InitSpecAnswer == InitAnswer /\ ChunkOff /\ GateOff /\ InitIndex /\ StatOff /\ AlarmOff /\ IngestOff /\ ConcOff
InitSpecConc == InitConc /\ ChunkOff /\ GateOff /\ StatOff /\ AlarmOff /\ IngestOff /\ AnswerOff

SpecChunk == InitSpecChunk /\ [][NextChunk]_vars
SpecGate == InitSpecGate /\ [][NextGate]_vars
SpecIndex == InitSpecIndex /\ [][NextIndex]_vars
SpecStats == InitSpecStats /\ [][NextStats]_vars
SpecAlarm == InitSpecAlarm /\ [][NextAlarm]_vars
SpecIngest == InitSpecIngest /\ [][NextIngest]_vars
SpecAnswer == InitSpecAnswer /\ [][NextAnswer]_vars
SpecConc == InitSpecConc /\ [][NextConc]_vars

(***************************************************************************)
(* Properties of chunk_text                                                *)
(***************************************************************************)

\* C1: every iteration of the window loop strictly increases the window
\* start, and the loop never runs more than max_chunks (1000) iterations,
\* for every text, chunk_size >= 1 and overlap >= 0 (also when the overlap
\* is at least the chunk size or snapping moved the end backward).
C1_ProgressAndCap ==
    [][chunk_count' # chunk_count =>
          /\ cpc = "loop"
          /\ chunk_count' = chunk_count + 1
          /\ chunk_count' <= max_chunks
          /\ start' > start]_vars

\* C1 witness: the loop stopped at the cap, after forced progress on every
\* iteration (overlap >= chunk_size), with text left over
C1_Witness ==
    /\ cpc = "done"
    /\ chunk_count = max_chunks
    /\ overlap >= chunk_size
    /\ start < Len(text)

\* position p of the trimmed text lies inside the window of an emitted chunk
Covered(p) == \E w \in windows : w[1] <= p /\ p < w[2]

\* C2: when the iteration cap is not reached, every non-whitespace position
\* of the trimmed text lies inside the window of at least one emitted chunk.
C2_Coverage ==
    (cpc = "done" /\ chunk_count < max_chunks) =>
        \A p \in 0..(Len(text) - 1) : ~IsSpace(text[p + 1]) => Covered(p)

(***************************************************************************)
(* Properties of the confidence gate and of format_citations               *)
(***************************************************************************)

\* the query has a token that, lowercased, is a domain keyword
OnDomain(q) == \E i \in 1..Len(q) : Lower(q[i]) \in industrial_keywords

\* the top result is a dict whose score is s
TopScoreIs(results, s) ==
    /\ results # <<>>
    /\ results[1].isdict
    /\ "score" \in results[1].keys
    /\ results[1].score = s

TopScoreNegative(results) == \E s \in GateScores : s < 0 /\ TopScoreIs(results, s)

\* C4 as stated: top score -0.1 and a query without a domain keyword: the
\* gate returns false.
C4_OffDomainRejected ==
    (g_op = "check" /\ TopScoreIs(g_results, -1000) /\ ~OnDomain(g_query))
        => ~g_confident

\* C4 amended: with a query without a domain keyword and a negative top
\* score the gate returns true exactly when |top| <= 0.25 (similarity
\* >= 0.8); in particular top score -0.1 is judged confident.
C4_OffDomainThreshold ==
    (g_op = "check" /\ TopScoreNegative(g_results) /\ ~OnDomain(g_query))
        => (g_confident <=> 4 * Abs(g_results[1].score) <= ScoreScale)

\* C4 witness: the gate accepted top score -0.1 for the query "unicorns"
C4_Witness ==
    /\ g_op = "check"
    /\ g_query = <<"unicorns">>
    /\ TopScoreIs(g_results, -1000)
    /\ g_confident

\* C5: with the default configuration, an on-domain query whose top result
\* has score 0.1 is judged not confident, and ask answers "I don't know"
\* with no citations.
C5_LowScoreRejected ==
    ( /\ g_op \in {"check", "ask"}
      /\ g_threshold = DefaultScoreThreshold
      /\ g_query \in {<<"temperature", "range">>,
                      <<"What", "is", "the", "temperature", "range?">>}
      /\ TopScoreIs(g_results, 1000) )
        => /\ ~g_confident
           /\ g_op = "ask" =>
                 g_response = [answer |-> IDontKnow, citations |-> <<>>]

\* C6: with a negative top score and an on-domain query the gate returns
\* true exactly when |top| <= 1 (similarity 1/(1+|top|) >= 0.5), whatever
\* the configured threshold and the lower-ranked results.
C6_NegativeBranch ==
    (g_op = "check" /\ TopScoreNegative(g_results) /\ OnDomain(g_query))
        => (g_confident <=> Abs(g_results[1].score) <= ScoreScale)

\* C6 witness: top score -0.1 above a result of score -2.0, an on-domain
\* query and a configured threshold of 0.9: confident
C6_Witness ==
    /\ g_op = "check"
    /\ g_query = <<"temperature", "range">>
    /\ g_threshold = 9000
    /\ Len(g_results) = 2
    /\ TopScoreIs(g_results, -1000)
    /\ g_results[2] = MkResult(-20000, "Manual", 5)
    /\ g_confident

\* C10: every citation score produced by format_citations lies in [0,1].
C10_CitationScoreRange ==
    g_op = "format" =>
        \A i \in 1..Len(g_citations) :
            0 <= g_citations[i].score /\ g_citations[i].score <= CitationScale

(***************************************************************************)
(* Properties of VectorIndex and of ask on it                              *)
(***************************************************************************)

Abstain == [answer |-> IDontKnow, citations |-> <<>>]

\* a structure is in memory and holds at least one vector
Populated == index.present /\ Len(index.vectors) > 0

\* every vector of the structure is farther than 0.25 from the last query
AllFartherThanQuarter ==
    \A i \in 1..Len(index.vectors) :
        4 * Dist(index.vectors[i], Embed(i_query)) > ScoreScale

C7_Aligned ==
    index.present =>
        /\ Len(ichunks) = Len(index.vectors)
        /\ \A i \in 1..Len(ichunks) : index.vectors[i] = Embed(ichunks[i].text)

\* C8: search returns at most k results, for the k >= 0 the caller passed,
\* and at most as many results as the index holds vectors.
C8_AtMostK ==
    i_op = "search" =>
        /\ Len(i_results) <= i_k
        /\ index.present => Len(i_results) <= Len(index.vectors)

\* C9: the list search returns is in non-increasing score order, each score
\* is the negated distance of its chunk to the query (so it is <= 0) and the
\* first result is the nearest chunk.
C9_ScoresAreNegatedDistances ==
    i_op = "search" =>
        /\ \A i \in 1..Len(i_results) :
              /\ i_results[i].score = -Dist(Embed(i_results[i].text), Embed(i_query))
              /\ i_results[i].score <= 0
        /\ \A i \in 1..(Len(i_results) - 1) : i_results[i].score >= i_results[i + 1].score
        /\ i_results # <<>> =>
              \A j \in 1..Len(ichunks) :
                  Dist(Embed(i_results[1].text), Embed(i_query))
                      <= Dist(Embed(ichunks[j].text), Embed(i_query))

(***************************************************************************)
(* Properties of format_citations                                          *)
(***************************************************************************)

\* a result format_citations keeps: a dict that is not empty
WellFormed(r) == r.isdict /\ r.keys # {}

\* c is the integer nearest to n/d
NearestTo(c, n, d) == 2 * Abs(c * d - n) <= d

\* citation c carries the title and page of result r (or the defaults) and,
\* when the raw score of r is negative, the score 1/(1+|s|) rounded to three
\* decimals
CitesNegativeOrMeta(c, r) ==
    /\ c.title = (IF "title" \in r.keys THEN r.title ELSE "Unknown")
    /\ c.page = (IF "page" \in r.keys THEN r.page ELSE PageNA)
    /\ GetScore(r, 0) < 0 =>
          NearestTo(c.score, CitationScale * ScoreScale, ScoreScale + Abs(GetScore(r, 0)))

\* C11 as stated: format_citations returns, in input order, one citation
\* {title, page, score} per well-formed (non-empty dict) result and none for a
\* malformed one; a negative raw score s becomes 1/(1+|s|) rounded to three
\* decimals and a non-negative score passes through unchanged.
C11_NonNegativeUnchanged ==
    g_op = "format" =>
        LET kept == SelectSeq(g_results, WellFormed)
        IN  /\ Len(g_citations) = Len(kept)
            /\ \A i \in 1..Len(kept) :
                  /\ CitesNegativeOrMeta(g_citations[i], kept[i])
                  /\ GetScore(kept[i], 0) >= 0 =>
                        g_citations[i].score * ScoreScale
                            = GetScore(kept[i], 0) * CitationScale

\* C11 amended: format_citations returns, in input order, one citation
\* {title, page, score} per well-formed result and none for a malformed one;
\* a negative raw score s becomes 1/(1+|s|) rounded to three decimals and a
\* non-negative score is rounded to three decimals as well (0.8766 -> 0.877),
\* so it is unchanged only when it has at most three decimals.
C11_BothBranchesRounded ==
    g_op = "format" =>
        LET kept == SelectSeq(g_results, WellFormed)
        IN  /\ Len(g_citations) = Len(kept)
            /\ \A i \in 1..Len(kept) :
                  /\ CitesNegativeOrMeta(g_citations[i], kept[i])
                  /\ GetScore(kept[i], 0) >= 0 =>
                        NearestTo(g_citations[i].score,
                                  GetScore(kept[i], 0) * CitationScale, ScoreScale)

\* C11 witness: format_citations of [{score: -2.0}, {score: 0.8766}] returned
\* the scores 0.333 and 0.877, in that order
C11_Witness ==
    /\ g_op = "format"
    /\ g_results = <<MkResult(-20000, "Manual", 5), MkResult(8766, "Manual", 5)>>
    /\ g_citations = <<[title |-> "Manual", page |-> 5, score |-> 333],
                       [title |-> "Manual", page |-> 5, score |-> 877]>>

(***************************************************************************)
(* Properties of the chunks chunk_text returns                             *)
(***************************************************************************)

\* s has a character that is not whitespace
NotBlank(s) == \E j \in 1..Len(s) : ~IsSpace(s[j])

\* C12: every string chunk_text has put into its result (the single chunk of
\* the short-circuit, a windowed chunk, the final remainder) is non-empty
\* and not whitespace-only, for every text, chunk_size and overlap.
C12_ChunksNotBlank ==
    \A i \in 1..Len(chunks) : chunks[i] # <<>> /\ NotBlank(chunks[i])

\* C12 witness: the loop ran, one of its windows held only whitespace and
\* added no chunk, and the result has chunks
C12_Witness ==
    /\ cpc = "done"
    /\ chunk_count >= 2
    /\ chunks # <<>>
    /\ \E s \in 0..(Len(text) - 1) :
          /\ \A w \in windows : w[1] # s
          /\ Slice(text, s, WindowEnd(text, s, chunk_size)) # <<>>
          /\ ~NotBlank(Slice(text, s, WindowEnd(text, s, chunk_size)))
          /\ \E w \in windows : NextStart(w[1], w[2], overlap, chunk_size) = s

\* C13: no chunk chunk_text returns is longer than chunk_size (the default
\* 600 when 0 is passed), and no window it cuts is: snapping only moves the
\* end backward and the remainder starts less than chunk_size // 2 before the
\* end of the text.
C13_ChunkLengthBound ==
    /\ \A i \in 1..Len(chunks) : Len(chunks[i]) <= chunk_size
    /\ \A w \in windows : w[2] - w[1] <= chunk_size

\* C13 witness: the result has a chunk of exactly chunk_size characters, a
\* window whose end was snapped back to a sentence boundary, and a remainder
C13_Witness ==
    /\ cpc = "done"
    /\ \E i \in 1..Len(chunks) : Len(chunks[i]) = chunk_size
    /\ \E w \in windows : w[2] < Min(w[1] + chunk_size, Len(text))
    /\ \E w \in windows :
          /\ w[2] = Len(text)
          /\ w[2] - w[1] < chunk_size \div 2
          /\ w[1] > 0

(***************************************************************************)
(* Properties of the alarm statistics                                      *)
(***************************************************************************)

\* the values of the frame are strictly increasing and there are at least two
StrictlyIncreasing(df) ==
    /\ Len(df) >= 2
    /\ \A i \in 1..(Len(df) - 1) : df[i].value < df[i + 1].value

\* C14 as stated: for every strictly increasing value sequence of length
\* >= 2, whatever the size of its increments, compute_summary_stats reports
\* trend_direction "increasing" and trend_slope > 0.
C14_IncreasingLabel ==
    (s_op = "stats" /\ StrictlyIncreasing(s_df)) =>
        /\ s_stats.trend_direction = "increasing"
        /\ s_stats.slope_num > 0

\* C14 amended: for every strictly increasing value sequence of length >= 2
\* compute_summary_stats reports trend_slope > 0, and trend_direction is
\* "increasing" when the sequence rises by more than 0.1 per sample on the
\* least-squares line and "stable" otherwise (never "decreasing").
C14_IncreasingAboveDeadBand ==
    (s_op = "stats" /\ StrictlyIncreasing(s_df)) =>
        /\ s_stats.slope_num > 0
        /\ s_stats.slope_den > 0
        /\ s_stats.trend_direction =
              (IF 10 * s_stats.slope_num > s_stats.slope_den * ValueScale
               THEN "increasing" ELSE "stable")
        /\ Len(s_df) = 2 =>
              s_stats.slope_num = (s_df[2].value - s_df[1].value) * s_stats.slope_den

\* C14 witness: the values 0.00, 0.04 rise, the slope is 0.04 and the label
\* is "stable"
C14_Witness ==
    /\ s_op = "stats"
    /\ Len(s_df) = 2
    /\ s_df[1].value = 0 /\ s_df[2].value = 4
    /\ s_stats.slope_num = 4 * s_stats.slope_den
    /\ s_stats.trend_direction = "stable"

\* the rows (from the second on) whose alarm_state differs from the row before
ChangeRows(df) == {i \in 2..Len(df) : df[i].alarm_state # df[i - 1].alarm_state}

\* the k-th smallest element of the set of numbers P
KthOf(P, k) == CHOOSE i \in P : Cardinality({j \in P : j <= i}) = k

\* C15: _find_alarm_transitions returns exactly one transition for each pair
\* of consecutive rows whose alarm_state differs, in row order, with
\* from_state the earlier row's state, to_state the later row's state and
\* timestamp and value those of the later row; equal consecutive states and
\* frames of fewer than two rows yield nothing.
C15_TransitionsAreChanges ==
    s_op = "transitions" =>
        /\ Len(s_transitions) = Cardinality(ChangeRows(s_df))
        /\ \A k \in 1..Len(s_transitions) :
              LET i == KthOf(ChangeRows(s_df), k)
              IN  /\ s_transitions[k].from_state = s_df[i - 1].alarm_state
                  /\ s_transitions[k].to_state = s_df[i].alarm_state
                  /\ s_transitions[k].timestamp = s_df[i].timestamp
                  /\ s_transitions[k].value = s_df[i].value

\* C15 witness: [OK, OK, High, HighHigh, HighHigh] gave OK -> High at the
\* third row and High -> HighHigh at the fourth
C15_Witness ==
    /\ s_op = "transitions"
    /\ s_df = ExampleFrame
    /\ s_transitions =
          <<[timestamp |-> 2, from_state |-> "OK", to_state |-> "High", value |-> 10500],
            [timestamp |-> 3, from_state |-> "High", to_state |-> "HighHigh",
             value |-> 11500]>>

(***************************************************************************)
(* Properties of failure handling in the index and in ask                  *)
(***************************************************************************)

\* C17: the "I don't know" response of ask is returned only when retrieval
\* ran successfully and the gate rejected its results; when retrieval failed
\* (index files missing, loading, model loading or embedding raising) the
\* response of ask differs from the abstain response.
C17_AbstainDistinctFromFailure ==
    (i_op = "ask" /\ i_retrieval_failed) => i_response # Abstain

\* C19: build_index returns False, and raises nothing, when it is given no
\* chunks and when model loading or embedding raises; when it returns True
\* the search structure is in memory and holds, position by position, the
\* embedding of every chunk it was given.
C19_BuildReturnValue ==
    i_op = "build" =>
        /\ ~i_raised
        /\ (b_supplied = <<>> \/ b_fail \in {"model", "encode"}) => ~i_ret
        /\ i_ret =>
              /\ index.present
              /\ Len(index.vectors) = Len(b_supplied)
              /\ \A i \in 1..Len(b_supplied) :
                    index.vectors[i] = Embed(b_supplied[i].text)

\* C19 witness: build_index returned True for three chunks although writing
\* the index file failed, and the structure holds their three embeddings
C19_Witness ==
    /\ i_op = "build"
    /\ i_ret
    /\ b_fail = "write_index"
    /\ Len(b_supplied) = 3
    /\ Len(index.vectors) = 3
    /\ index_file # Stored(index.vectors)

(***************************************************************************)
(* Properties of explain_alarm and of ask under failures                   *)
(***************************************************************************)

\* l is a list
IsList(l) == DOMAIN l = 1..Len(l)

\* C16: every call of ask returns a record with an answer string and a
\* citations list, and every call of explain_alarm returns a record with a
\* data summary, an answer and a citations list, whatever the index files
\* and the alarm file hold (absent, corrupt) and whichever pipeline stage
\* raises; no exception reaches the caller.
C16_AlwaysWellFormed ==
    /\ i_op = "ask" =>
          /\ ~i_raised
          /\ i_response.answer \in STRING /\ i_response.answer # ""
          /\ IsList(i_response.citations)
    /\ a_op = "explain" =>
          /\ ~a_raised
          /\ a_result.summary_from_data.kind \in STRING
          /\ a_result.summary_from_data.kind # ""
          /\ a_result.answer \in STRING /\ a_result.answer # ""
          /\ IsList(a_result.citations)

\* C16 witness: explain_alarm found rows, a later stage raised and the
\* except clause returned the error result, while the index file is corrupt
C16_Witness ==
    /\ a_op = "explain"
    /\ index_file = Corrupt
    /\ alarm_file = Stored(TableRising)
    /\ a_result = ExplainError(a_tag)
    /\ ~a_raised

\* no row of the alarm file has the requested tag and a timestamp inside the
\* inclusive window
NoRowMatches ==
    \A i \in 1..Len(alarm_file.data) :
        ~ /\ alarm_file.data[i].tag = a_tag
          /\ a_start <= alarm_file.data[i].timestamp
          /\ alarm_file.data[i].timestamp <= a_end

\* C18: explain_alarm returns the "No alarm data available." result when the
\* loaded table is empty and the "No data found for {tag}" result when no row
\* has the requested tag with a timestamp inside the inclusive window
\* [start, end]; in both cases citations is empty, nothing is raised and ask
\* is not called.
C18_FailsClosed ==
    a_op = "explain" =>
        /\ (alarm_file.state # "ok" \/ alarm_file.data = <<>>) =>
              a_result = NoAlarmData /\ ~a_raised /\ ~a_asked
        /\ ( /\ alarm_file.state = "ok" /\ alarm_file.data # <<>>
             /\ a_start # BadTime /\ a_end # BadTime
             /\ NoRowMatches ) =>
              /\ a_result = NoDataFound(a_tag)
              /\ a_result.citations = <<>>
              /\ ~a_raised /\ ~a_asked

\* C18 witness: the file has rows of the tag, the window starts after it
\* ends, and the result is "No data found"
C18_Witness ==
    /\ a_op = "explain"
    /\ alarm_file = Stored(TableRising)
    /\ a_tag = "Temp_101"
    /\ a_start > a_end
    /\ a_result = NoDataFound("Temp_101")
    /\ ~a_asked

(***************************************************************************)
(* Properties of the ingested corpus                                       *)
(***************************************************************************)

\* the number of chunks of all_chunks before position i with the title of
\* chunk i
EarlierOfSameTitle(i) ==
    Cardinality({j \in 1..(i - 1) : all_chunks[j].title = all_chunks[i].title})

\* C20: with pairwise distinct titles no two chunks of the corpus have the
\* same chunk_id, and each id is title_p{page}_c{n} where n counts the
\* chunks of that document from 0, across all of its pages.
C20_UniqueChunkIds ==
    /\ \A i, j \in 1..Len(all_chunks) :
          i # j => all_chunks[i].chunk_id # all_chunks[j].chunk_id
    /\ \A i \in 1..Len(all_chunks) :
          all_chunks[i].chunk_id =
              all_chunks[i].title \o <<"_", "p">> \o Digits(all_chunks[i].page)
                  \o <<"_", "c">> \o Digits(EarlierOfSameTitle(i))

\* C20 witness: two documents are ingested; the counter of "d" went on from
\* page 1 to page 2 (id d_p2_c2) and the document "d_p1" starts again at 0
C20_Witness ==
    /\ ipc = "done"
    /\ Len(pdf_files) = 2
    /\ \E i \in 1..Len(all_chunks) :
          all_chunks[i].chunk_id = <<"d", "_", "p", "2", "_", "c", "2">>
    /\ \E i \in 1..Len(all_chunks) :
          all_chunks[i].chunk_id = <<"d", "_", "p", "1", "_", "p", "1", "_", "c", "0">>
    /\ processed_file = Stored(all_chunks)

(***************************************************************************)
(* Properties of the ask pipeline: gating                                  *)
(***************************************************************************)

\* C21: ask runs the answer synthesizer and the citation formatter only
\* after the gate accepted the results: when the gate rejects (an empty
\* list and a top result that is not a record included) the response is the
\* "I don't know" answer with no citations, and a response with citations
\* or a synthesized answer means that the gate accepted.
C21_SynthesisOnlyAfterGate ==
    g_op = "ask" =>
        /\ ~g_confident => g_response = [answer |-> IDontKnow, citations |-> <<>>]
        /\ (g_results = <<>> \/ ~g_results[1].isdict) =>
               g_response = [answer |-> IDontKnow, citations |-> <<>>]
        /\ g_response.citations # <<>> => g_confident
        /\ g_response.answer = Generated => g_confident

\* C21 witness: ask on an accepted list whose second entry is not a record
\* returned a synthesized answer with the citation of the first
C21_Witness ==
    /\ g_op = "ask"
    /\ g_confident
    /\ Len(g_results) = 2
    /\ ~g_results[2].isdict
    /\ g_response.answer = Generated
    /\ Len(g_response.citations) = 1

(***************************************************************************)
(* Properties of chunk_text: the final remainder                           *)
(***************************************************************************)

\* the chunks emitted by the iteration that starts at the current state,
\* before its test of the remainder
EmittedBeforeRemainder ==
    LET chunk == Strip(Slice(text, start, WindowEnd(text, start, chunk_size)))
    IN  IF chunk # <<>> THEN Append(chunks, chunk) ELSE chunks

\* C22: once the text left after advancing start is shorter than
\* chunk_size // 2 the loop stops, and the trimmed remainder is emitted as
\* the final chunk unless it is empty or equal to the last emitted chunk; a
\* remainder that differs from the last emitted chunk is always emitted.
C22_RemainderEmitted ==
    [][(ChunkIter /\ Len(text) - start' < chunk_size \div 2) =>
          LET remaining == Strip(Slice(text, start', Len(text)))
              emitted   == EmittedBeforeRemainder
              dup       == emitted # <<>> /\ emitted[Len(emitted)] = remaining
          IN  /\ cpc' = "done"
              /\ chunks' = IF remaining = <<>> \/ dup THEN emitted
                           ELSE Append(emitted, remaining)]_vars

(***************************************************************************)
(* Properties of the guidance query                                        *)
(***************************************************************************)

\* the records explain_alarm last analysed
AnalysedRows == SliceByTime(LoadAlarmData(alarm_file), a_tag, a_start, a_end)

HasState(df, st) == \E i \in 1..Len(df) : df[i].alarm_state = st

\* the trend label of the records
TrendOf(df) ==
    IF Len(df) > 1 THEN TrendDirection(SlopeNum(df), SlopeDen(df)) ELSE "stable"

\* the statistics of the last explain_alarm were computed (not {})
StatsComputed == a_result.summary_from_data.kind = "Process tag analysis"

\* C23: get_tag_guidance asks once, with the query made of the tag (as the
\* list of words: the words of the tag), then
\* "high high alarm response procedure" if a record is HighHigh, otherwise
\* "high alarm response procedure" if a record is High, then "rising trend
\* troubleshooting" for an increasing and "falling trend troubleshooting"
\* for a decreasing trend, whatever the alarm part is (the statistics being
\* those computed from the records).
C23_GuidanceQuery ==
    (a_op = "explain" /\ a_asked /\ StatsComputed) =>
        LET df == AnalysedRows
            alarm_part == IF HasState(df, "HighHigh")
                          THEN <<"high", "high", "alarm", "response", "procedure">>
                          ELSE IF HasState(df, "High")
                          THEN <<"high", "alarm", "response", "procedure">>
                          ELSE <<>>
            trend_part == CASE TrendOf(df) = "increasing" ->
                                   <<"rising", "trend", "troubleshooting">>
                            [] TrendOf(df) = "decreasing" ->
                                   <<"falling", "trend", "troubleshooting">>
                            [] OTHER -> <<>>
        IN  a_query = TagWords(a_tag) \o alarm_part \o trend_part

\* C23 witness: records in High and in HighHigh with a rising trend; the
\* query has the high high part and the rising part
C23_Witness ==
    /\ a_op = "explain"
    /\ a_asked
    /\ StatsComputed
    /\ HasState(AnalysedRows, "HighHigh")
    /\ HasState(AnalysedRows, "High")
    /\ TrendOf(AnalysedRows) = "increasing"
    /\ a_query = <<"Temp_101", "high", "high", "alarm", "response", "procedure",
                   "rising", "trend", "troubleshooting">>

(***************************************************************************)
(* Properties of the trend label                                           *)
(***************************************************************************)

\* C24: the trend is "increasing" iff the least-squares slope of value over
\* the sample index is > 0.1, "decreasing" iff it is < -0.1 and "stable"
\* otherwise; a constant sequence and a single sample are "stable" with
\* slope 0.
C24_TrendLabel ==
    (s_op = "stats" /\ s_df # <<>>) =>
        LET n     == Len(s_df)
            num   == IF n > 1 THEN SlopeNum(s_df) ELSE 0
            den   == IF n > 1 THEN SlopeDen(s_df) ELSE 1
            label == s_stats.trend_direction
        IN  /\ s_stats.slope_num * den = num * s_stats.slope_den
            /\ s_stats.slope_den > 0
            /\ label \in {"increasing", "decreasing", "stable"}
            /\ label = "increasing" <=> 10 * num > den * ValueScale
            /\ label = "decreasing" <=> 10 * num < -(den * ValueScale)
            /\ (\A i \in 1..n : s_df[i].value = s_df[1].value) =>
                   label = "stable" /\ s_stats.slope_num = 0

\* C24 witness: two samples 0.1 apart, so that the slope is exactly 0.1,
\* are labelled stable
C24_Witness ==
    /\ s_op = "stats"
    /\ Len(s_df) = 2
    /\ 10 * s_stats.slope_num = s_stats.slope_den * ValueScale
    /\ s_stats.trend_direction = "stable"

(***************************************************************************)
(* Properties of _generate_answer: the order of the rules                  *)
(***************************************************************************)

AsksTemperatureRange == QueryHas(ga_query, "temperature") /\ QueryHas(ga_query, "range")
AsksAlarmOrProcedure == QueryHas(ga_query, "alarm") \/ QueryHas(ga_query, "procedure")
AsksCalibration == QueryHas(ga_query, "calibration") \/ QueryHas(ga_query, "calibrate")
ContextIsBlank == ga_context = <<>> \/ BlankContext(ga_context)

\* the alarm/procedure rule wins over the calibration rule when it extracts
\* a sentence, and a blank context gives the no-information answer
AlarmBeforeCalibrationAndBlank ==
    /\ (~ContextIsBlank /\ AsksAlarmOrProcedure
            /\ Procedures(CleanContext(ga_context)) # <<>>) =>
           /\ ga_answer.rule # "calibration"
           /\ ga_answer.rule # "temperature" => ga_answer.rule = "alarm"
    /\ ContextIsBlank => ga_answer = Answer("none", <<>>)

\* C25 (as claimed): the first matching rule in the order temperature-range,
\* alarm/procedure, calibration, default is applied; a query with
\* "temperature" and "range" on a context that contains the marker "Normal
\* Operating Range:" gets the temperature-range answer whatever else the
\* query contains.
C25_MarkerInContext ==
    ga_op = "done" =>
        /\ (AsksTemperatureRange /\ Has(ga_context, RangeMarker)) =>
               ga_answer.rule = "temperature"
        /\ AlarmBeforeCalibrationAndBlank

\* C25 (amended): as above, for a context that contains the marker after
\* its source-annotation lines are removed.
C25_MarkerInCleanContext ==
    ga_op = "done" =>
        /\ (AsksTemperatureRange /\ ~ContextIsBlank
                /\ Has(CleanContext(ga_context), RangeMarker)) =>
               ga_answer.rule = "temperature"
        /\ AlarmBeforeCalibrationAndBlank

\* C25 witness: a query with temperature, range, calibration and procedure
\* on a context with the range marker, the calibration marker and a
\* procedure sentence got the temperature-range answer
C25_Witness ==
    /\ ga_op = "done"
    /\ AsksTemperatureRange /\ AsksAlarmOrProcedure /\ AsksCalibration
    /\ Has(CleanContext(ga_context), RangeMarker)
    /\ Has(LowerSeq(CleanContext(ga_context)), CalMarker)
    /\ Procedures(CleanContext(ga_context)) # <<>>
    /\ ga_answer = Answer("temperature", <<"20-25C">>)

(***************************************************************************)
(* Properties of concurrent searches                                       *)
(***************************************************************************)

\* what search(q, k) returns when no other call runs on the instance
AloneResult(q, k) ==
    IF index_file.state = "ok" /\ chunks_file.state = "ok"
    THEN SearchLoaded(q, k, index_file.data, chunks_file.data)
    ELSE <<>>

\* C26: concurrent searches on one VectorIndex, no build running, are safe:
\* under every interleaving each search returns what it would return alone;
\* a search that runs while another one loads the index from disk does not
\* see the search structure without its chunk list.
C26_ConcurrentSearchAsAlone ==
    \A t \in Threads : t_pc[t] = "done" => t_res[t] = AloneResult(t_q[t], t_k[t])

(***************************************************************************)
(* Properties of build_index: persistence and failure                      *)
(***************************************************************************)

\* what load_index on a fresh VectorIndex does with the files as they are
FreshLoad == LoadOutcome(index_file, chunks_file, NoIndex, <<>>)

\* C27: when build_index returns True the structure and the chunk list of
\* that build are persisted: load_index on a fresh instance succeeds with
\* the same chunks in the same order and as many vectors; and load_index
\* returns False whenever one of the two files is absent.
C27_BuildTruePersisted ==
    /\ (i_op = "build" /\ i_ret) =>
           /\ FreshLoad.ok
           /\ FreshLoad.chunks = b_supplied
           /\ Len(FreshLoad.index.vectors) = Len(b_supplied)
    /\ (i_op = "load" /\ (index_file.state = "absent" \/ chunks_file.state = "absent")) =>
           ~i_ret

\* C28: a build_index call that returns False leaves the structure and the
\* chunk list in memory as they were before the call, and leaves the index
\* files unchanged.
C28_FailedBuildChangesNothing ==
    [][(i_op' = "build" /\ ~i_ret') =>
          /\ index' = index
          /\ ichunks' = ichunks
          /\ index_file' = index_file
          /\ chunks_file' = chunks_file]_vars

(***************************************************************************)
(* Properties of the gate: monotonicity                                    *)
(***************************************************************************)

\* the result list with the score of its top result replaced
WithTopScore(results, s) == [results EXCEPT ![1] = MkResult(s, results[1].title, results[1].page)]

\* C29: for a fixed query the gate is monotone over the scores search can
\* produce (scores <= 0): when a top score s is judged confident, every
\* better top score s' with s <= s' <= 0, the exact match 0 included, is
\* judged confident too, for on-domain and off-domain queries.
C29_GateMonotone ==
    (/\ g_op = "check"
     /\ g_confident
     /\ g_results # <<>>
     /\ g_results[1].isdict
     /\ "score" \in g_results[1].keys
     /\ g_results[1].score <= 0) =>
        \A s \in GateScores :
            (g_results[1].score <= s /\ s <= 0) =>
                CheckRetrievalConfidence(WithTopScore(g_results, s), g_query, g_threshold)

(***************************************************************************)
(* Properties of the guidance query at the gate                            *)
(***************************************************************************)

\* the records analysed have an alarm state or a trend that adds a phrase
AddsPhrase ==
    \/ HasState(AnalysedRows, "High")
    \/ HasState(AnalysedRows, "HighHigh")
    \/ TrendOf(AnalysedRows) # "stable"

\* the gate does not apply the off-domain threshold to the query, whatever
\* the top score is
NeverOffDomainThreshold(query) ==
    \A s \in GateScores :
        ConfidenceThreshold(s, HasIndustrialContext(query), DefaultScoreThreshold)
            # OffDomainThreshold

\* with High, HighHigh or a trend the query has a keyword of the gate as a
\* token, and the off-domain threshold is not applied to it
PhraseMakesOnDomain ==
    AddsPhrase =>
        /\ \E i \in 1..Len(a_query) : a_query[i] \in industrial_keywords
        /\ HasIndustrialContext(a_query)
        /\ NeverOffDomainThreshold(a_query)

\* C30 (as claimed): with a High or HighHigh record or a trend that is not
\* stable the guidance query has a gate keyword as a token, whatever the
\* tag; otherwise the query is the tag alone and the gate treats it as
\* off-domain unless the tag itself is a keyword.
C30_OffDomainUnlessTagIsKeyword ==
    (a_op = "explain" /\ a_asked /\ StatsComputed) =>
        /\ PhraseMakesOnDomain
        /\ ~AddsPhrase =>
               /\ a_query = TagWords(a_tag)
               /\ HasIndustrialContext(a_query) <=> Lower(a_tag) \in industrial_keywords

\* C30 (amended): ... off-domain unless a whitespace-delimited word of the
\* tag, in lower case, is a keyword.
C30_OffDomainUnlessTagHasKeyword ==
    (a_op = "explain" /\ a_asked /\ StatsComputed) =>
        /\ PhraseMakesOnDomain
        /\ ~AddsPhrase =>
               /\ a_query = TagWords(a_tag)
               /\ HasIndustrialContext(a_query) <=>
                      \E i \in 1..Len(TagWords(a_tag)) :
                          Lower(TagWords(a_tag)[i]) \in industrial_keywords

\* C30 witness: a tag without keyword, records in High and HighHigh with a
\* rising trend: the query is on-domain
C30_Witness ==
    /\ a_op = "explain"
    /\ a_asked
    /\ StatsComputed
    /\ a_tag = "Temp_101"
    /\ AddsPhrase
    /\ HasIndustrialContext(a_query)
    /\ ~HasIndustrialContext(TagWords(a_tag))

====
